---- MODULE Spec2Model ----
(***************************************************************************)
(* Model of the ivcnotes note engine: notes, note histories, the step      *)
(* relation of the circuit, and the wallet operations issue / split /      *)
(* verify_incoming together with the relay they talk to.                   *)
(*                                                                         *)
(* Field elements are symbolic terms.  A literal n is <<"lit", n>>, a      *)
(* Poseidon evaluation under configuration c of the inputs in is           *)
(* <<"H", c, in>>; distinct terms are distinct field elements (collision   *)
(* resistance).  Key material of identity i is <<"nk", i>> and <<"pk", i>>.*)
(***************************************************************************)
EXTENDS Integers, Sequences, FiniteSets, TLC

\* ------------------------------------------------------------------ bounds
NumWallets == 2        \* wallets (identities) of the model
MaxValue == 2          \* largest note value put on the wire
MaxSteps == 2          \* a history is split only while it has fewer steps
MaxSpendables == 2     \* cap on the spendables a wallet collects
MaxDeliveries == 2     \* cap on histories delivered from outside the relay
MaxBlinds == 4         \* cap on the blinding factors drawn from the rng
U64Bits == 3           \* width standing for the 64 bits of u64

Wallets == 1..NumWallets
\* a username nobody registered
NoUser == 0
Usernames == Wallets \cup {NoUser}

\* u64::MAX and the modulus of the application field, scaled with U64Bits;
\* as for bn254 the modulus is odd and (modulus - 1) / 2 exceeds u64::MAX
U64Max == 2^U64Bits - 1
FieldModulus == 2^(U64Bits + 2) - 1
Half == (FieldModulus - 1) \div 2

\* --------------------------------------------------------- field elements
Lit(n) == <<"lit", n>>
Zero == Lit(0)

\* CRH::evaluate(cfg, input)
CRH(cfg, input) == <<"H", cfg, input>>

\* the configurations of concrete::poseidon_cfg: one configuration cloned
\* into every domain
ConcreteCfg ==
    [id |-> 0, note |-> 0, blind |-> 0, state |-> 0, nullifier |-> 0,
     tx |-> 0, eddsa |-> 0]

\* a PoseidonConfigs value whose per-domain configurations differ
TaggedCfg ==
    [id |-> 1, note |-> 2, blind |-> 3, state |-> 4, nullifier |-> 5,
     tx |-> 6, eddsa |-> 7]

\* ------------------------------------------------------------- identities
NullifierKeyOf(i) == <<"nk", i>>
PublicKeyOf(i) == <<"pk", i>>
PkX(pk) == <<"x", pk>>
PkY(pk) == <<"y", pk>>

\* PoseidonConfigs::id_commitment / var_id_commitment
id_commitment(h, nullifier_key, public_key) ==
    CRH(h.id, <<nullifier_key, PkX(public_key), PkY(public_key)>>)

\* Auth::new: the address of identity i
AddressOf(h, i) == id_commitment(h, NullifierKeyOf(i), PublicKeyOf(i))

\* Auth::sign_tx and the equation verify_signature enforces: a signature
\* is valid for (public key, message) iff it was made by that key's signer
\* on that message
sign_tx(i, msg) == <<"sig", PublicKeyOf(i), msg>>
verify_signature(pubkey, sig, msg) == sig = <<"sig", pubkey, msg>>

\* ------------------------------------------------------------------ notes
OutIndexes == {"Issue", "Out0", "Out1"}

\* From<&NoteOutIndex> for u8
inner(out_index) ==
    CASE out_index = "Issue" -> 0
      [] out_index = "Out0" -> 1
      [] out_index = "Out1" -> 2

\* Note::new
NewNote(asset_hash, owner, value, step, out_index, parent_note, blind) ==
    [asset_hash |-> asset_hash, owner |-> owner, value |-> value,
     step |-> step, out_index |-> out_index, parent_note |-> parent_note,
     blind |-> blind]

\* Asset::hash: SHA-512 over terms and issuer, reduced to the field
AssetHash(asset) == <<"sha512", asset.terms, asset.issuer>>

\* ToCRH for Note / NoteVar, on the field elements of a note
to_crh(asset_hash, owner, value, step, parent, out_index) ==
    <<asset_hash, owner, value, step, parent, out_index>>

\* PoseidonConfigs::var_note
var_note(h, asset_hash, owner, value, step, parent, out_index) ==
    CRH(h.note, to_crh(asset_hash, owner, value, step, parent, out_index))

\* PoseidonConfigs::blind_note / var_blind_note
blind_note(h, note_hash, blind) == CRH(h.blind, <<note_hash, blind>>)

\* PoseidonConfigs::note, first component
note_hash(h, note) ==
    var_note(h, note.asset_hash, note.owner, Lit(note.value), Lit(note.step),
             note.parent_note, Lit(inner(note.out_index)))

\* PoseidonConfigs::note, second component
blind_note_hash(h, note) == blind_note(h, note_hash(h, note), note.blind)

\* PoseidonConfigs::state / var_state
state(h, out0, out1) == CRH(h.state, <<out0, out1>>)

\* PoseidonConfigs::sighash / var_sighash
sighash(h, input, out0, out1) == CRH(h.tx, <<input, out0, out1>>)

\* PoseidonConfigs::sighash_split_tx
sighash_split_tx(h, tx) ==
    sighash(h, note_hash(h, tx.note_in), note_hash(h, tx.note_out_0),
            note_hash(h, tx.note_out_1))

\* PoseidonConfigs::nullifier: evaluates under the state configuration
nullifier(h, note_in, key) == CRH(h.state, <<note_in, key>>)

\* PoseidonConfigs::var_nullifier: evaluates under the nullifier
\* configuration
var_nullifier(h, note, nullifier_key) == CRH(h.nullifier, <<note, nullifier_key>>)

\* ------------------------------------------------------------ the circuit
\* PublicInput::new
NewPublicInput(asset_hash, sender, state_in, state_out, step, nullifier_) ==
    [asset_hash |-> asset_hash, sender |-> sender, state_in |-> state_in,
     state_out |-> state_out, step |-> step, nullifier |-> nullifier_]

\* AuxInputs::new
NewAuxInputs(receiver, public_key, signature, nullifier_key, parent, input_index, value_in, value_out, sibling, blind_in, blind_out_0, blind_out_1) ==
    [receiver |-> receiver, public_key |-> public_key,
     signature |-> signature, nullifier_key |-> nullifier_key,
     parent |-> parent, input_index |-> input_index, value_in |-> value_in,
     value_out |-> value_out, sibling |-> sibling, blind_in |-> blind_in,
     blind_out_0 |-> blind_out_0, blind_out_1 |-> blind_out_1]

\* The witness assignment synth allocates from an AuxInputs value
\* (witness_in / witness_point_in): value_out is allocated twice, once as
\* the value of the issued note and once as value_out_1; values and the
\* input index enter as residues of the field.
WitnessOf(aux) ==
    [receiver |-> aux.receiver, public_key |-> aux.public_key,
     signature |-> aux.signature, nullifier_key |-> aux.nullifier_key,
     parent |-> aux.parent, index |-> inner(aux.input_index),
     value |-> aux.value_out, value_in |-> aux.value_in,
     value_out_1 |-> aux.value_out, sibling |-> aux.sibling,
     blind_in |-> aux.blind_in, blind_out_0 |-> aux.blind_out_0,
     blind_out_1 |-> aux.blind_out_1]

\* subtraction of two residues in the field
FieldSub(a, b) == (a - b + FieldModulus) % FieldModulus

\* FpVar::enforce_cmp(a, b, Ordering::Less, true): both a and b + 1 are
\* constrained to [0, (p-1)/2] and the low bit of 2 * (a - (b + 1)) must be
\* set
enforce_cmp_less_eq(a, b) ==
    LET r == (b + 1) % FieldModulus IN
    /\ a <= Half
    /\ r <= Half
    /\ ((2 * FieldSub(a, r)) % FieldModulus) % 2 = 1

\* value_out_0 as the circuit derives it: value_in - value_out_1 in the
\* field on the split branch, value_in on the issue branch
circuit_value_out_0(is_split_tx, value_in, value_out_1) ==
    IF is_split_tx THEN FieldSub(value_in, value_out_1) ELSE value_in

\* the two range constraints of synth: value_out_0 <= value_in and
\* value_out_1 <= u64::MAX
value_constraints(is_split_tx, value_in, value_out_1) ==
    /\ enforce_cmp_less_eq(
           circuit_value_out_0(is_split_tx, value_in, value_out_1), value_in)
    /\ enforce_cmp_less_eq(value_out_1, U64Max)

\* synth: TRUE iff the assignment (pi, w) satisfies every constraint
synth(h, pi, w) ==
    LET is_issue_tx == pi.step = 0
        is_split_tx == ~is_issue_tx
        out_index_0 == inner("Out0")
        out_index_1 == inner("Out1")
        \* identity commitment integrity
        sender == id_commitment(h, w.nullifier_key, w.public_key)
        \* Branch 1: IssueTx
        issue_note_hash ==
            var_note(h, pi.asset_hash, w.receiver, Lit(w.value),
                     Lit(pi.step), Zero, Lit(out_index_1))
        issue_blind_note_hash == blind_note(h, issue_note_hash, w.blind_out_1)
        issue_state_out == state(h, Zero, issue_blind_note_hash)
        sighash_issue == sighash(h, Zero, Zero, issue_note_hash)
        \* Branch 2: SplitTx, input state integrity
        is_i0 == w.index = out_index_0
        is_i1 == w.index = out_index_1
        note_in_hash ==
            var_note(h, pi.asset_hash, pi.sender, Lit(w.value_in),
                     Lit(pi.step - 1), w.parent, Lit(w.index))
        blind_note_in_hash == blind_note(h, note_in_hash, w.blind_in)
        lhs == IF is_i0 THEN blind_note_in_hash ELSE w.sibling
        rhs == IF is_i1 THEN blind_note_in_hash ELSE w.sibling
        split_state_in == state(h, lhs, rhs)
        split_nullifier == var_nullifier(h, note_in_hash, w.nullifier_key)
        \* output state integrity
        note_hash_1 ==
            var_note(h, pi.asset_hash, w.receiver, Lit(w.value_out_1),
                     Lit(pi.step), blind_note_in_hash, Lit(out_index_1))
        blind_note_hash_1 == blind_note(h, note_hash_1, w.blind_out_1)
        value_out_0 == circuit_value_out_0(is_split_tx, w.value_in, w.value_out_1)
        note_hash_0 ==
            var_note(h, pi.asset_hash, pi.sender, Lit(value_out_0),
                     Lit(pi.step), blind_note_in_hash, Lit(out_index_0))
        blind_note_hash_0 == blind_note(h, note_hash_0, w.blind_out_0)
        split_state_out == state(h, blind_note_hash_0, blind_note_hash_1)
        sighash_split == sighash(h, note_in_hash, note_hash_0, note_hash_1)
        sighash_ == IF is_issue_tx THEN sighash_issue ELSE sighash_split
    IN  /\ pi.sender = sender
        /\ is_issue_tx => pi.state_in = pi.asset_hash
        /\ is_issue_tx => pi.state_out = issue_state_out
        /\ is_i0 \/ is_i1
        /\ is_split_tx => pi.state_in = split_state_in
        /\ is_split_tx => pi.nullifier = split_nullifier
        /\ value_constraints(is_split_tx, w.value_in, w.value_out_1)
        /\ is_split_tx => pi.state_out = split_state_out
        /\ verify_signature(w.public_key, w.signature, sighash_)

\* ---------------------------------------------------- prover and verifier
\* A proof stands for the statement it was made for: the public input and
\* whether the assignment satisfied the constraints (a proof made from an
\* unsatisfying assignment verifies against nothing).
\* Prover::create_proof
create_proof(h, public, aux) ==
    [pi |-> public, sat |-> synth(h, public, WitnessOf(aux))]

\* Verifier::verify_proof: Ok(true) iff the proof is a proof of this
\* public input
verify_proof(proof, pi) == proof.sat /\ proof.pi = pi

\* -------------------------------------------------------------- histories
\* IVCStep::new
NewIVCStep(proof, state_, nullifier_, sender) ==
    [proof |-> proof, state |-> state_, nullifier |-> nullifier_,
     sender |-> sender]

\* Asset::new
NewAsset(issuer, terms) == [issuer |-> issuer, terms |-> terms]

\* NoteHistory { asset, steps, current_note, sibling }
NewNoteHistory(asset, steps, current_note, sibling) ==
    [asset |-> asset, steps |-> steps, current_note |-> current_note,
     sibling |-> sibling]

\* NoteHistory::state aborts on the assert_eq of its Issue arm
state_panics(nh) ==
    nh.current_note.out_index = "Issue" /\ nh.sibling # Zero

\* NoteHistory::state
history_state(h, nh) ==
    LET bnh == blind_note_hash(h, nh.current_note) IN
    CASE nh.current_note.out_index = "Out0" -> state(h, bnh, nh.sibling)
      [] nh.current_note.out_index = "Out1" -> state(h, nh.sibling, bnh)
      [] nh.current_note.out_index = "Issue" -> state(h, Zero, bnh)

\* Note::default / NoteHistory with nothing in it, used where an operation
\* has no such value to report
NoNote == NewNote(Zero, Zero, 0, 0, "Issue", Zero, Zero)
NoHistory == NewNoteHistory(NewAsset(Zero, 0), <<>>, NoNote, Zero)
NoPublicInput == NewPublicInput(Zero, Zero, Zero, Zero, 0, Zero)

\* Blind::rand: the n-th draw of the rng
BlindOf(n) == <<"blind", n>>

\* ------------------------------------------------- verification of a chain
\* a verifier that would feed the asset hash as state_in to every step
incoming_public_inputs_unchained(nh) ==
    LET asset_hash == AssetHash(nh.asset) IN
    [i \in 1..Len(nh.steps) |->
        NewPublicInput(asset_hash, nh.steps[i].sender, asset_hash,
                       nh.steps[i].state, i - 1, nh.steps[i].nullifier)]

\* The public inputs verify_incoming builds for the steps of a history:
\* state_in starts at the asset hash and then follows the states of the
\* steps; step is the position in the chain.
incoming_public_inputs(nh) ==
    LET asset_hash == AssetHash(nh.asset) IN
    [i \in 1..Len(nh.steps) |->
        NewPublicInput(asset_hash, nh.steps[i].sender,
                       IF i = 1 THEN asset_hash ELSE nh.steps[i - 1].state,
                       nh.steps[i].state, i - 1, nh.steps[i].nullifier)]

\* the booleans Verifier::verify_proof returns for the steps of a history
incoming_verdicts(nh) ==
    [i \in 1..Len(nh.steps) |->
        verify_proof(nh.steps[i].proof, incoming_public_inputs(nh)[i])]

\* a verify_incoming that would not look for the note among the spendables
verify_incoming_no_dedup(h, sp, nh) ==
    LET n == Len(nh.steps)
    IN  IF n > 0 /\ state_panics(nh)
        THEN [result |-> "panic", spendables |-> sp, added |-> FALSE]
        ELSE IF n > 0 /\ history_state(h, nh) # nh.steps[n].state
        THEN [result |-> "bad current state", spendables |-> sp,
              added |-> FALSE]
        ELSE [result |-> "ok", spendables |-> Append(sp, nh), added |-> TRUE]

\* Wallet::verify_incoming on the spendables sp of a wallet: the result
\* and the spendables afterwards.  verify_proof's Result is only inspected
\* for Err (map_err ... ?), which a well-formed verifying key never yields;
\* the boolean inside Ok is dropped.
verify_incoming(h, sp, nh) ==
    LET exists == \E k \in 1..Len(sp) : sp[k].current_note = nh.current_note
        n == Len(nh.steps)
    IN  IF exists THEN [result |-> "ok", spendables |-> sp, added |-> FALSE]
        ELSE IF n > 0 /\ state_panics(nh)
        THEN [result |-> "panic", spendables |-> sp, added |-> FALSE]
        ELSE IF n > 0 /\ history_state(h, nh) # nh.steps[n].state
        THEN [result |-> "bad current state", spendables |-> sp,
              added |-> FALSE]
        ELSE [result |-> "ok", spendables |-> Append(sp, nh), added |-> TRUE]

\* ------------------------------------------------------------- the wallet
\* Contact of wallet i as Wallet::contact builds it
ContactOf(h, i) ==
    [address |-> AddressOf(h, i), username |-> i,
     public_key |-> PublicKeyOf(i)]

\* Auth::shared_key: both ends of the Diffie-Hellman exchange reach the
\* same key
shared_key(i, public_key) ==
    LET j == public_key[2] IN
    <<"dh", IF i <= j THEN i ELSE j, IF i <= j THEN j ELSE i>>

\* SplitTx::new
NewSplitTx(note_in, note_out_0, note_out_1) ==
    [note_in |-> note_in, note_out_0 |-> note_out_0,
     note_out_1 |-> note_out_1]

\* Auth::split: sign the split transaction and derive the nullifier
auth_split(h, i, tx) ==
    [tx |-> tx,
     signature |-> sign_tx(i, sighash_split_tx(h, tx)),
     nullifier |-> nullifier(h, note_hash(h, tx.note_in), NullifierKeyOf(i))]

\* a funds check that would also refuse to spend the whole note
insufficient_funds_strict(note_in, value) == value >= note_in.value

\* note_in.value.checked_sub(value) yields None
insufficient_funds(note_in, value) == value > note_in.value

\* the change note Wallet::split builds (output 0)
split_note_out_0(asset_hash, sender, note_in, value, step, blind) ==
    NewNote(asset_hash, sender, note_in.value - value, step, "Out0",
            note_in.parent_note, blind)

\* the transfer note Wallet::split builds (output 1)
split_note_out_1(asset_hash, receiver, note_in, value, step, blind) ==
    NewNote(asset_hash, receiver, value, step, "Out1",
            note_in.parent_note, blind)

\* the public inputs Wallet::split hands to the prover
split_public_inputs(asset_hash, sender, state_in, state_out) ==
    NewPublicInput(asset_hash, sender, state_in, state_out, 0, Zero)

\* the auxiliary inputs Wallet::split hands to the prover
split_aux_inputs(i, receiver, sealed, note_in, value, sibling) ==
    NewAuxInputs(receiver, PublicKeyOf(i), sealed.signature,
                 NullifierKeyOf(i), note_in.parent_note, note_in.out_index,
                 note_in.value, value, sibling, note_in.blind,
                 sealed.tx.note_out_0.blind, sealed.tx.note_out_1.blind)

\* the history Wallet::split keeps: the spendable with the new step, the
\* change note as current note and the blinded hash of the sent note as
\* sibling
split_history_0(note_history, steps, note_out_0, blind_note_hash_1) ==
    NewNoteHistory(note_history.asset, steps, note_out_0, blind_note_hash_1)

\* a sent history that would keep the sibling of the kept one
split_history_1_same_sibling(note_history_0, note_out_1, blind_note_hash_0) ==
    [note_history_0 EXCEPT !.current_note = note_out_1]

\* the history Wallet::split sends: a clone of the kept one with the sent
\* note as current note and the blinded hash of the change note as sibling
split_history_1(note_history_0, note_out_1, blind_note_hash_0) ==
    [note_history_0 EXCEPT !.current_note = note_out_1,
                           !.sibling = blind_note_hash_0]

\* ------------------------------------------- histories made outside a wallet
\* Any party can put an envelope on the relay, so a wallet may be handed
\* histories no wallet of this code base built.  The asset of all of them
\* is the asset issued by wallet 1.
ForeignAsset(cfg) == NewAsset(AddressOf(cfg, 1), 0)

\* An issue history as a prover outside the wallet makes it: the note is
\* signed by `signer`, owned by `owner`, carries `out_index`, and the step
\* publishes `nullifier_`; the proof is made from the matching assignment
\* with input index Out1.
foreign_issue(cfg, signer, owner, value, out_index, nullifier_, sibling) ==
    LET asset == ForeignAsset(cfg)
        asset_hash == AssetHash(asset)
        note == NewNote(asset_hash, AddressOf(cfg, owner), value, 0,
                        out_index, Zero, BlindOf(0))
        sig == sign_tx(signer, sighash(cfg, Zero, Zero, note_hash(cfg, note)))
        state_out == state(cfg, Zero, blind_note_hash(cfg, note))
        public == NewPublicInput(asset_hash, AddressOf(cfg, signer),
                                 asset_hash, state_out, 0, nullifier_)
        aux == NewAuxInputs(AddressOf(cfg, owner), PublicKeyOf(signer), sig,
                            NullifierKeyOf(signer), Zero, "Out1", 0, value,
                            Zero, Zero, Zero, BlindOf(0))
        step == NewIVCStep(create_proof(cfg, public, aux), state_out,
                           nullifier_, AddressOf(cfg, signer))
    IN  NewNoteHistory(asset, <<step>>, note, sibling)

ForeignKinds ==
    {"nullifier", "badstate", "badproof", "nosteps", "issueidx", "issuesib",
     "asset"}

\* variations of the issue history signed by the issuer
foreign_variant(cfg, kind, owner, value) ==
    LET good == foreign_issue(cfg, 1, owner, value, "Out1", Zero, Zero) IN
    CASE kind = "nullifier" ->
            foreign_issue(cfg, 1, owner, value, "Out1", Lit(1), Zero)
      [] kind = "badstate" ->
            [good EXCEPT !.steps[1].state = state(cfg, Zero, Zero)]
      [] kind = "badproof" ->
            [good EXCEPT !.steps[1].proof.sat = FALSE]
      [] kind = "nosteps" ->
            [good EXCEPT !.steps = <<>>]
      [] kind = "issueidx" ->
            foreign_issue(cfg, 1, owner, value, "Issue", Zero, Zero)
      [] kind = "issuesib" ->
            foreign_issue(cfg, 1, owner, value, "Issue", Zero, Lit(1))
      [] kind = "asset" ->
            [good EXCEPT !.asset = NewAsset(AddressOf(cfg, 1), 1)]

ForeignHistories(cfg) ==
    {foreign_issue(cfg, s, o, MaxValue, "Out1", Zero, Zero) :
         s \in Wallets, o \in Wallets}
    \cup {foreign_variant(cfg, k, 1, MaxValue) : k \in ForeignKinds}

\* ------------------------------------------------------------------ state
\* Every wallet is constructed by Wallet::new and registered with
\* Wallet::register, as the wallets of the test harness are; the address
\* book of a wallet caches the answers of the service, so whether a lookup
\* succeeds is decided by the registered usernames alone.
contacts == Wallets

VARIABLES
    h,            \* the PoseidonConfigs every wallet was built with
    foreign,      \* the history that circulates outside the relay
    spendables,   \* spendables[w]: Wallet.spendables
    queue,        \* envelopes stored at the relay
    rng,          \* number of blinding factors drawn so far
    deliveries,   \* histories delivered from outside the relay so far
    crashed,      \* crashed[w]: the wallet's process aborted on a panic
    spent,        \* log of the completed splits
    last,         \* the last wallet operation and what it returned
    probe,        \* input and output of the last evaluation of a pure function
    service,      \* the service and its clients: the notes and users stored,
                  \* the contacts each client cached, the last answer, the
                  \* client implementation, the note histories saved and
                  \* the ones last fetched
    cli           \* the command line client of one account: the notebook
                  \* file and the position of each running command

vars == <<h, foreign, spendables, queue, rng, deliveries, crashed, spent,
          last, probe, service, cli>>

\* no contact
NoContact == [address |-> Zero, username |-> NoUser, public_key |-> Zero]

\* no answer of the service client yet
NoResponse ==
    [client |-> 0, kind |-> "none", user |-> NoUser, result |-> "none",
     contact |-> NoContact]

\* a service that stores no notes and no users, and clients that have
\* cached no contact and got no answer
NoService ==
    [notes |-> [w \in Wallets |-> <<>>], users |-> {},
     contacts |-> [w \in Wallets |-> {}], response |-> NoResponse,
     impl |-> "blocking", saved |-> {}, fetched |-> {}]

\* number of commands of the client that run at the same time
NumProcs == 2    \* bound
Procs == 1..NumProcs

\* a command that is not running
NoProc == [pc |-> "idle", index |-> 0, note |-> NoHistory, note_0 |-> NoHistory]

\* Notebook::create: an empty notebook, no command running
NoCli == [notebook |-> <<>>, procs |-> [p \in Procs |-> NoProc]]

NoLast ==
    [op |-> "none", w |-> 0, result |-> "none", nh |-> NoHistory,
     value |-> 0, receiver |-> 0, index |-> 0, added |-> FALSE,
     sent |-> NoHistory]

NoProbe ==
    [fn |-> "none", value_in |-> 0, value |-> 0, value_out_0 |-> 0,
     value_out_1 |-> 0, overflow_checks |-> FALSE, done |-> FALSE,
     result |-> "none", note_out_0 |-> NoNote, note_out_1 |-> NoNote,
     hashes |-> <<>>]

\* Wallet::find_contact_by_username: the address book first, then the
\* service
contact_found(w, username) == username \in contacts

\* Wallet::send_note: the envelope put on the relay for the receiver
send_note_msg(w, receiver, nh) ==
    [username |-> receiver, receiver |-> AddressOf(h, receiver),
     sender |-> w, key |-> shared_key(w, PublicKeyOf(receiver)),
     data |-> nh]

\* the note Wallet::issue builds
issue_note(asset_hash, receiver, value, blind) ==
    NewNote(asset_hash, receiver, value, 0, "Issue", Zero, blind)

\* IssueTx::new aborts unless its three assert_eq hold
issue_tx_new_panics(note) ==
    \/ note.out_index # "Out1"
    \/ note.step # 0
    \/ note.parent_note # Zero

\* Wallet::issue
Issue(w, value, receiver) ==
    /\ ~crashed[w]
    /\ rng < MaxBlinds
    /\ LET asset == NewAsset(AddressOf(h, w), 0)
           asset_hash == AssetHash(asset)
           blind == BlindOf(rng + 1)
           note == issue_note(asset_hash, AddressOf(h, receiver), value, blind)
           sig == sign_tx(w, sighash(h, Zero, Zero, note_hash(h, note)))
           state_out == state(h, Zero, blind_note_hash(h, note))
           public == NewPublicInput(asset_hash, AddressOf(h, w), asset_hash,
                                    state_out, 0, Zero)
           aux == NewAuxInputs(AddressOf(h, receiver), PublicKeyOf(w), sig,
                               NullifierKeyOf(w), Zero, "Issue", 0, value,
                               Zero, Zero, Zero, blind)
           proof == create_proof(h, public, aux)
           step == NewIVCStep(proof, state_out, Zero, AddressOf(h, w))
           nh == NewNoteHistory(asset, <<step>>, note, Zero)
           call == [NoLast EXCEPT !.op = "issue", !.w = w]
           built == [call EXCEPT !.value = value, !.receiver = receiver]
       IN  IF ~contact_found(w, receiver)
           THEN /\ last' = [call EXCEPT !.result = "contact not found"]
                /\ UNCHANGED <<rng, crashed, queue>>
           ELSE /\ rng' = rng + 1
                /\ IF issue_tx_new_panics(note)
                   THEN /\ last' = [built EXCEPT !.result = "panic"]
                        /\ crashed' = [crashed EXCEPT ![w] = TRUE]
                        /\ UNCHANGED queue
                   ELSE \E prover_ok \in BOOLEAN, send_ok \in BOOLEAN :
                        IF ~prover_ok
                        THEN /\ last' = [built EXCEPT
                                            !.result = "proof generation failed"]
                             /\ UNCHANGED <<crashed, queue>>
                        ELSE /\ last' = [built EXCEPT
                                            !.result = IF send_ok THEN "ok"
                                                       ELSE "send failed",
                                            !.sent = nh]
                             /\ queue' =
                                    IF send_ok
                                    THEN queue \cup
                                         {send_note_msg(w, receiver, nh)}
                                    ELSE queue
                             /\ UNCHANGED crashed
    /\ UNCHANGED <<cli, h, foreign, spendables, deliveries, spent, probe, service>>

\* Wallet::split
Split(w, index, value, receiver) ==
    /\ ~crashed[w]
    /\ rng + 2 <= MaxBlinds
    /\ index < Len(spendables[w]) => Len(spendables[w][index + 1].steps) < MaxSteps
    /\ LET call == [NoLast EXCEPT !.op = "split", !.w = w]
       IN  IF ~contact_found(w, receiver)
           THEN /\ last' = [call EXCEPT !.result = "contact not found"]
                /\ UNCHANGED <<spendables, rng, crashed, queue, spent>>
           ELSE IF index >= Len(spendables[w])
           THEN /\ last' = [call EXCEPT !.result = "bad spendable index"]
                /\ UNCHANGED <<spendables, rng, crashed, queue, spent>>
           ELSE
           LET note_history == spendables[w][index + 1]
               sender == AddressOf(h, w)
               note_in == note_history.current_note
               step == Len(note_history.steps)
               asset_hash == AssetHash(note_history.asset)
               called == [call EXCEPT !.value = value, !.index = index,
                                      !.nh = note_history]
           IN  IF insufficient_funds(note_in, value)
               THEN /\ last' = [called EXCEPT !.result = "insufficient funds"]
                    /\ UNCHANGED <<spendables, rng, crashed, queue, spent>>
               ELSE
               LET note_out_0 ==
                       split_note_out_0(asset_hash, sender, note_in, value,
                                        step, BlindOf(rng + 1))
                   note_out_1 ==
                       split_note_out_1(asset_hash, AddressOf(h, receiver),
                                        note_in, value, step, BlindOf(rng + 2))
                   tx == NewSplitTx(note_in, note_out_0, note_out_1)
                   sealed == auth_split(h, w, tx)
                   state_in == history_state(h, note_history)
                   blind_note_hash_0 == blind_note_hash(h, note_out_0)
                   blind_note_hash_1 == blind_note_hash(h, note_out_1)
                   state_out == state(h, blind_note_hash_0, blind_note_hash_1)
                   public == split_public_inputs(asset_hash, sender, state_in,
                                                 state_out)
                   aux == split_aux_inputs(w, AddressOf(h, receiver), sealed,
                                           note_in, value, note_history.sibling)
                   proof == create_proof(h, public, aux)
                   new_step == NewIVCStep(proof, state_out, sealed.nullifier,
                                          sender)
                   steps == Append(note_history.steps, new_step)
                   note_history_0 ==
                       split_history_0(note_history, steps, note_out_0,
                                       blind_note_hash_1)
                   note_history_1 ==
                       split_history_1(note_history_0, note_out_1,
                                       blind_note_hash_0)
               IN  /\ rng' = rng + 2
                   /\ IF state_panics(note_history)
                      THEN /\ last' = [called EXCEPT !.result = "panic"]
                           /\ crashed' = [crashed EXCEPT ![w] = TRUE]
                           /\ UNCHANGED <<spendables, queue, spent>>
                      ELSE \E prover_ok \in BOOLEAN, send_ok \in BOOLEAN :
                      IF ~prover_ok
                      THEN /\ last' = [called EXCEPT
                                          !.result = "proof generation failed"]
                           /\ UNCHANGED <<spendables, crashed, queue, spent>>
                      ELSE /\ spendables' =
                                  [spendables EXCEPT
                                      ![w][index + 1] = note_history_0]
                           /\ spent' = spent \cup
                                  {[w |-> w, nh |-> note_history,
                                    note_in |-> note_in,
                                    nullifier |-> sealed.nullifier,
                                    sent |-> note_history_1]}
                           /\ last' = [called EXCEPT
                                          !.result = IF send_ok THEN "ok"
                                                     ELSE "send failed",
                                          !.receiver = receiver,
                                          !.sent = note_history_1]
                           /\ queue' =
                                  IF send_ok
                                  THEN queue \cup
                                       {send_note_msg(w, receiver,
                                                      note_history_1)}
                                  ELSE queue
                           /\ UNCHANGED crashed
    /\ UNCHANGED <<cli, h, foreign, deliveries, probe, service>>

\* the histories the relay holds for a user
relay_histories(username) ==
    {m.data : m \in {x \in queue : x.username = username}}

Init ==
    /\ h = ConcreteCfg
    /\ cli = NoCli
    /\ foreign \in ForeignHistories(h)
    /\ spendables = [w \in Wallets |-> <<>>]
    /\ queue = {}
    /\ rng = 0
    /\ deliveries = 0
    /\ crashed = [w \in Wallets |-> FALSE]
    /\ spent = {}
    /\ last = NoLast
    /\ probe = NoProbe
    /\ service = NoService

\* Wallet::verify_incoming as an operation of wallet w on history nh
VerifyIncoming(w, nh) ==
    LET r == verify_incoming(h, spendables[w], nh) IN
    /\ ~crashed[w]
    /\ r.added => Len(spendables[w]) < MaxSpendables
    /\ spendables' = [spendables EXCEPT ![w] = r.spendables]
    /\ crashed' = [crashed EXCEPT ![w] = r.result = "panic"]
    /\ last' = [NoLast EXCEPT !.op = "verify_incoming", !.w = w,
                              !.result = r.result, !.nh = nh,
                              !.added = r.added]

\* a wallet verifies a history it fetched from the relay
Receive(w) ==
    /\ \E nh \in relay_histories(w) : VerifyIncoming(w, nh)
    /\ UNCHANGED <<cli, h, foreign, queue, rng, deliveries, spent, probe, service>>

\* a wallet verifies the history that was made outside
ReceiveForeign(w) ==
    /\ deliveries < MaxDeliveries
    /\ deliveries' = deliveries + 1
    /\ VerifyIncoming(w, foreign)
    /\ UNCHANGED <<cli, h, foreign, queue, rng, spent, probe, service>>

\* The calls of split a wallet is driven with: every spendable with every
\* value up to one above MaxValue and every registered receiver, one call
\* with the first index past the spendables, and one call naming a receiver
\* nobody registered.  Calls that differ only in arguments split does not
\* read before it returns are represented by one of them.
SplitCalls(w) ==
    {<<index, value, receiver>> :
         index \in 0..(Len(spendables[w]) - 1), value \in 1..(MaxValue + 1),
         receiver \in contacts}
    \cup {<<Len(spendables[w]), 1, 1>>, <<0, 1, NoUser>>}

Next ==
    \/ \E w \in Wallets, value \in {MaxValue}, receiver \in Usernames :
            Issue(w, value, receiver)
    \/ \E w \in Wallets : \E call \in SplitCalls(w) :
            Split(w, call[1], call[2], call[3])
    \/ \E w \in Wallets : Receive(w)
    \/ \E w \in Wallets : ReceiveForeign(w)

Spec == Init /\ [][Next]_vars

\* ------------------------------------------------ pure functions on inputs
\* the zero-sum check of the command line client's verify_step, on u64
\* values: note_out_0.value + note_out_1.value aborts on overflow in a
\* build with overflow checks and wraps in a build without them
verify_step_zero_sum(value_in, value_out_0, value_out_1, overflow_checks) ==
    LET sum == value_out_0 + value_out_1 IN
    IF sum > U64Max /\ overflow_checks THEN "panic"
    ELSE IF sum % (U64Max + 1) = value_in THEN "accepted"
    ELSE "rejected"

\* Wallet::split of the command line client: the two notes it builds from
\* the current note of a history
cli_split(cfg, self, receiver, note_history, value, blind_0, blind_1) ==
    LET note_in == note_history.current_note
        step == Len(note_history.steps) - 1
        asset_hash == AssetHash(note_history.asset)
        value_out_0 == value
        value_out_1 == note_in.value - value
    IN  IF value > note_in.value
        THEN [result |-> "insufficient funds", note_out_0 |-> NoNote,
              note_out_1 |-> NoNote]
        ELSE [result |-> "ok",
              note_out_0 |-> NewNote(asset_hash, AddressOf(cfg, self),
                                     value_out_0, step, "Out0",
                                     note_in.parent_note, blind_0),
              note_out_1 |-> NewNote(asset_hash, AddressOf(cfg, receiver),
                                     value_out_1, step, "Out1",
                                     note_in.parent_note, blind_1)]

\* the history the command line client is asked to split: a note of the
\* given value issued by wallet 1 to itself
cli_history(cfg, value) ==
    foreign_issue(cfg, 1, 1, value, "Issue", Zero, Zero)

Residues == 0..(FieldModulus - 1)

NewProbe(fn, value_in, value, value_out_0, value_out_1, overflow_checks) ==
    [fn |-> fn, value_in |-> value_in, value |-> value,
     value_out_0 |-> value_out_0, value_out_1 |-> value_out_1,
     overflow_checks |-> overflow_checks, done |-> FALSE, result |-> "none",
     note_out_0 |-> NoNote, note_out_1 |-> NoNote, hashes |-> <<>>]

\* the inputs the pure functions are evaluated on: every pair of residues
\* as witness values of the circuit, every triple of u64 values under both
\* kinds of build, every value and note value of a split
ProbeInputs ==
    {NewProbe("synth", value_in, 0, 0, value_out_1, FALSE) :
         value_in \in Residues, value_out_1 \in Residues}
    \cup {NewProbe("verify_step", value_in, 0, value_out_0, value_out_1, c) :
              value_in \in 0..U64Max, value_out_0 \in 0..U64Max,
              value_out_1 \in 0..U64Max, c \in BOOLEAN}
    \cup {NewProbe("cli_split", value_in, value, 0, 0, FALSE) :
              value_in \in 0..MaxValue, value \in 0..(MaxValue + 1)}

InitPure ==
    /\ h = ConcreteCfg
    /\ cli = NoCli
    /\ foreign = foreign_issue(h, 1, 1, MaxValue, "Out1", Zero, Zero)
    /\ spendables = [w \in Wallets |-> <<>>]
    /\ queue = {}
    /\ rng = 0
    /\ deliveries = 0
    /\ crashed = [w \in Wallets |-> FALSE]
    /\ spent = {}
    /\ last = NoLast
    /\ probe \in ProbeInputs
    /\ service = NoService

\* the value constraints of synth on a split step
SynthValues ==
    /\ probe.fn = "synth" /\ ~probe.done
    /\ probe' =
           [probe EXCEPT
               !.done = TRUE,
               !.value_out_0 =
                   circuit_value_out_0(TRUE, probe.value_in, probe.value_out_1),
               !.result =
                   IF value_constraints(TRUE, probe.value_in, probe.value_out_1)
                   THEN "accepted" ELSE "rejected"]
    /\ UNCHANGED <<cli, h, foreign, spendables, queue, rng, deliveries, crashed,
                   spent, last, service>>

\* the zero-sum check of verify_step
VerifyStepZeroSum ==
    /\ probe.fn = "verify_step" /\ ~probe.done
    /\ probe' =
           [probe EXCEPT
               !.done = TRUE,
               !.result =
                   verify_step_zero_sum(probe.value_in, probe.value_out_0,
                                        probe.value_out_1,
                                        probe.overflow_checks)]
    /\ UNCHANGED <<cli, h, foreign, spendables, queue, rng, deliveries, crashed,
                   spent, last, service>>

\* Wallet::split of the command line client, wallet 1 paying wallet 2
CliSplit ==
    /\ probe.fn = "cli_split" /\ ~probe.done
    /\ LET r == cli_split(h, 1, 2, cli_history(h, probe.value_in),
                          probe.value, BlindOf(1), BlindOf(2))
       IN  probe' = [probe EXCEPT !.done = TRUE, !.result = r.result,
                                  !.note_out_0 = r.note_out_0,
                                  !.note_out_1 = r.note_out_1]
    /\ UNCHANGED <<cli, h, foreign, spendables, queue, rng, deliveries, crashed,
                   spent, last, service>>

NextPure ==
    \/ SynthValues
    \/ VerifyStepZeroSum
    \/ CliSplit

SpecPure == InitPure /\ [][NextPure]_vars

\* ------------------------------------------------- fetching stored notes
\* the longest batch of notes the service returns
MaxBatch == 2

\* What can be stored for a user: histories encrypted for the user that
\* pass verify_incoming ("good1", "good2"), one whose last state does not
\* match its current note ("badstate"), one with an Issue current note and
\* a non-zero sibling ("issuesib"), a ciphertext that does not end in a
\* valid padding ("padding"), and a ciphertext whose plaintext is not the
\* encoding of a history ("bytes").
NoteKinds == {"good1", "good2", "badstate", "issuesib", "padding", "bytes"}

\* EncryptedNoteHistory of the kind, stored for wallet w by wallet 2
stored_note(cfg, w, kind) ==
    [sender |-> ContactOf(cfg, 2),
     encrypted |->
        [fault |-> IF kind \in {"padding", "bytes"} THEN kind ELSE "none",
         data |-> CASE kind = "good1" ->
                          foreign_issue(cfg, 2, w, MaxValue, "Out1", Zero, Zero)
                    [] kind = "good2" ->
                          foreign_issue(cfg, 2, w, 1, "Out1", Zero, Zero)
                    [] kind \in {"badstate", "issuesib"} ->
                          foreign_variant(cfg, kind, w, MaxValue)
                    [] OTHER -> NoHistory]]

\* the history a wallet holds before it fetches its notes
held_history(cfg, w) == foreign_issue(cfg, 1, w, MaxValue, "Out1", Zero, Zero)

\* Auth::decrypt of a stored note: cipher::decrypt unwraps the result of
\* the unpadding, CipherText::decrypt maps a decoding failure to an error
auth_decrypt(encrypted) ==
    CASE encrypted.fault = "padding" -> [result |-> "panic", value |-> NoHistory]
      [] encrypted.fault = "bytes" ->
             [result |-> "decryption failed", value |-> NoHistory]
      [] OTHER -> [result |-> "ok", value |-> encrypted.data]

\* the collect of get_notes: the notes are decrypted in order up to the
\* first one that fails
RECURSIVE decrypt_notes(_)
decrypt_notes(notes) ==
    IF notes = <<>> THEN [result |-> "ok", value |-> <<>>]
    ELSE LET first == auth_decrypt(Head(notes).encrypted)
             rest == decrypt_notes(Tail(notes))
         IN  IF first.result # "ok"
             THEN [result |-> first.result, value |-> <<>>]
             ELSE IF rest.result # "ok" THEN rest
             ELSE [result |-> "ok", value |-> <<first.value>> \o rest.value]

\* the loop of get_notes: verify_incoming(note_history)? for each history
RECURSIVE verify_notes(_, _, _)
verify_notes(cfg, sp, note_histories) ==
    IF note_histories = <<>> THEN [result |-> "ok", spendables |-> sp]
    ELSE LET r == verify_incoming(cfg, sp, Head(note_histories))
         IN  IF r.result # "ok"
             THEN [result |-> r.result, spendables |-> r.spendables]
             ELSE verify_notes(cfg, r.spendables, Tail(note_histories))

\* Wallet::get_notes on the spendables sp with the notes the service returned
get_notes(cfg, sp, notes) ==
    LET decrypted == decrypt_notes(notes)
    IN  IF decrypted.result # "ok"
        THEN [result |-> decrypted.result, spendables |-> sp]
        ELSE verify_notes(cfg, sp, decrypted.value)

\* the batches of at most MaxBatch kinds
BatchKinds ==
    UNION {[1..n -> NoteKinds] : n \in 0..MaxBatch}

InitNotes ==
    /\ h = ConcreteCfg
    /\ cli = NoCli
    /\ foreign = NoHistory
    /\ \E holding \in BOOLEAN :
          spendables = [w \in Wallets |->
                           IF holding THEN <<held_history(h, w)>> ELSE <<>>]
    /\ queue = {}
    /\ rng = 0
    /\ deliveries = 0
    /\ crashed = [w \in Wallets |-> FALSE]
    /\ spent = {}
    /\ last = NoLast
    /\ probe = NoProbe
    /\ \E kinds \in BatchKinds :
          service = [NoService EXCEPT !.notes = [w \in Wallets |->
                        [k \in 1..Len(kinds) |-> stored_note(h, w, kinds[k])]]]

\* Wallet::get_notes
GetNotes(w) ==
    /\ ~crashed[w]
    /\ \E service_ok \in BOOLEAN :
          LET r == get_notes(h, spendables[w], service.notes[w])
          IN  IF ~service_ok
              THEN /\ crashed' = [crashed EXCEPT ![w] = TRUE]
                   /\ last' = [NoLast EXCEPT
                                  !.op = "get_notes", !.w = w,
                                  !.result = "failed to get notes from db"]
                   /\ UNCHANGED spendables
              ELSE /\ spendables' = [spendables EXCEPT ![w] = r.spendables]
                   /\ crashed' = [crashed EXCEPT ![w] = r.result = "panic"]
                   /\ last' = [NoLast EXCEPT !.op = "get_notes", !.w = w,
                                             !.result = r.result]
    /\ UNCHANGED <<cli, h, foreign, queue, rng, deliveries, spent, probe, service>>

NextNotes == \E w \in Wallets : GetNotes(w)

SpecNotes == InitNotes /\ [][NextNotes]_vars

\* ------------------------------------------------------------ the cipher
\* Bytes are scaled to ByteBits bits, the AES block to BlockLen bytes, the
\* curve group to the integers modulo GroupOrder; an object is a vector of
\* at most MaxMsg bytes.
ByteBits == 2
BlockLen == 2
GroupOrder == 7
MaxMsg == 2

ByteMod == 2 ^ ByteBits
Bytes == 0..(ByteMod - 1)

\* the byte vectors of at most n bytes
ByteVectors(n) == UNION {[1..k -> Bytes] : k \in 0..n}

\* the secret scalar of the signing key of wallet i
SecretOf(i) == i + 1

\* the public key of wallet i as a group element: secret times generator
PointOf(i) == (SecretOf(i) * 1) % GroupOrder

\* a shared key derived from the own secret alone
signer_shared_key_own(secret, point) == (secret * secret) % GroupOrder

\* SigningKey::shared_key: the secret scalar times the other side's public
\* key, as Auth::shared_key calls it
signer_shared_key(secret, point) == (secret * point) % GroupOrder

\* gen_aes_key: key and iv are the two halves of a digest of the shared key
gen_aes_key(shared) ==
    [key |-> [i \in 1..BlockLen |-> (shared * i + i) % ByteMod],
     iv |-> [i \in 1..BlockLen |-> (shared + 3 * i) % ByteMod]]

\* exclusive or of two bytes
RECURSIVE xor_byte(_, _)
xor_byte(a, b) ==
    IF a = 0 /\ b = 0 THEN 0
    ELSE (((a % 2) + (b % 2)) % 2) + 2 * xor_byte(a \div 2, b \div 2)

xor_block(a, b) == [i \in 1..BlockLen |-> xor_byte(a[i], b[i])]

\* the block cipher: a permutation of the blocks for every key, and its
\* inverse
block_encrypt(key, b) ==
    [i \in 1..BlockLen |-> (b[BlockLen + 1 - i] + key[i]) % ByteMod]

block_decrypt(key, c) ==
    [i \in 1..BlockLen |->
        (c[BlockLen + 1 - i] + ByteMod - key[BlockLen + 1 - i]) % ByteMod]

\* Pkcs7 padding: n bytes of value n, with 1 <= n <= BlockLen
pkcs7_pad(msg) ==
    LET n == BlockLen - (Len(msg) % BlockLen)
    IN  msg \o [i \in 1..n |-> n]

\* Pkcs7 unpadding: an error unless the data is a positive number of whole
\* blocks ending in n bytes of value n
pkcs7_unpad(data) ==
    LET len == Len(data)
        n == data[len]
    IN  IF len = 0 \/ len % BlockLen # 0 THEN [ok |-> FALSE, value |-> <<>>]
        ELSE IF n = 0 \/ n > BlockLen \/ \E i \in (len - n + 1)..len : data[i] # n
        THEN [ok |-> FALSE, value |-> <<>>]
        ELSE [ok |-> TRUE, value |-> SubSeq(data, 1, len - n)]

\* cipher block chaining over whole blocks
RECURSIVE cbc_encrypt(_, _, _)
cbc_encrypt(key, prev, data) ==
    IF Len(data) < BlockLen THEN <<>>
    ELSE LET c == block_encrypt(key, xor_block(SubSeq(data, 1, BlockLen), prev))
         IN  c \o cbc_encrypt(key, c, SubSeq(data, BlockLen + 1, Len(data)))

RECURSIVE cbc_decrypt(_, _, _)
cbc_decrypt(key, prev, data) ==
    IF Len(data) < BlockLen THEN <<>>
    ELSE LET c == SubSeq(data, 1, BlockLen)
         IN  xor_block(block_decrypt(key, c), prev)
             \o cbc_decrypt(key, c, SubSeq(data, BlockLen + 1, Len(data)))

\* cipher::encrypt
encrypt(shared, msg) ==
    LET aes_key == gen_aes_key(shared)
    IN  cbc_encrypt(aes_key.key, aes_key.iv, pkcs7_pad(msg))

\* cipher::decrypt: the unwrap aborts on an unpadding error
decrypt(shared, msg) ==
    LET aes_key == gen_aes_key(shared)
        unpadded == IF Len(msg) % BlockLen # 0
                    THEN [ok |-> FALSE, value |-> <<>>]
                    ELSE pkcs7_unpad(cbc_decrypt(aes_key.key, aes_key.iv, msg))
    IN  [panic |-> ~unpadded.ok, value |-> unpadded.value]

\* bincode::serialize of a byte vector: its length, then its bytes
serialize(obj) == <<Len(obj)>> \o obj

\* bincode::deserialize: an error when the bytes end before the vector
\* does; bytes after it are ignored
deserialize(data) ==
    IF Len(data) = 0 \/ Len(data) - 1 < data[1]
    THEN [ok |-> FALSE, value |-> <<>>]
    ELSE [ok |-> TRUE, value |-> SubSeq(data, 2, data[1] + 1)]

\* CipherText::encrypt
ciphertext_encrypt(shared, obj) == [data |-> encrypt(shared, serialize(obj))]

\* CipherText::decrypt
ciphertext_decrypt(shared, encrypted) ==
    LET data == decrypt(shared, encrypted.data)
        obj == deserialize(data.value)
    IN  IF data.panic THEN [result |-> "panic", value |-> <<>>]
        ELSE IF ~obj.ok THEN [result |-> "decryption failed", value |-> <<>>]
        ELSE [result |-> "ok", value |-> obj.value]

\* the inputs of the cipher: an object sent from one wallet to another, and
\* arbitrary bytes a wallet is handed as a ciphertext
CipherInputs ==
    {[fn |-> fn, sender |-> s, receiver |-> r, obj |-> x, done |-> FALSE,
      shared |-> 0, encrypted |-> [data |-> <<>>], result |-> "none",
      value |-> <<>>] :
         fn \in {"envelope", "bytes"}, s \in Wallets, r \in Wallets,
         x \in ByteVectors(MaxMsg)}

InitCipher ==
    /\ h = ConcreteCfg
    /\ cli = NoCli
    /\ foreign = NoHistory
    /\ spendables = [w \in Wallets |-> <<>>]
    /\ queue = {}
    /\ rng = 0
    /\ deliveries = 0
    /\ crashed = [w \in Wallets |-> FALSE]
    /\ spent = {}
    /\ last = NoLast
    /\ probe \in CipherInputs
    /\ service = NoService

\* Auth::encrypt by the sender, then Auth::decrypt by the receiver
Envelope ==
    /\ probe.fn = "envelope" /\ ~probe.done
    /\ LET shared == signer_shared_key(SecretOf(probe.sender),
                                       PointOf(probe.receiver))
           encrypted == ciphertext_encrypt(shared, probe.obj)
           r == ciphertext_decrypt(
                    signer_shared_key(SecretOf(probe.receiver),
                                      PointOf(probe.sender)), encrypted)
       IN  probe' = [probe EXCEPT !.done = TRUE, !.shared = shared,
                                  !.encrypted = encrypted,
                                  !.result = r.result, !.value = r.value]
    /\ UNCHANGED <<cli, h, foreign, spendables, queue, rng, deliveries, crashed,
                   spent, last, service>>

\* Auth::decrypt by the receiver of bytes that nobody encrypted
DecryptBytes ==
    /\ probe.fn = "bytes" /\ ~probe.done
    /\ LET shared == signer_shared_key(SecretOf(probe.receiver),
                                       PointOf(probe.sender))
           r == ciphertext_decrypt(shared, [data |-> probe.obj])
       IN  probe' = [probe EXCEPT !.done = TRUE, !.shared = shared,
                                  !.encrypted = [data |-> probe.obj],
                                  !.result = r.result, !.value = r.value]
    /\ UNCHANGED <<cli, h, foreign, spendables, queue, rng, deliveries, crashed,
                   spent, last, service>>

NextCipher ==
    \/ Envelope
    \/ DecryptBytes

SpecCipher == InitCipher /\ [][NextCipher]_vars

\* ----------------------------------------------------- the service client
\* FWrap::to_bytes of an address: the compressed encoding of the field
\* element
address_to_bytes(address) == <<"bytes", "field", address>>

\* FWrap::from_bytes for an address
address_from_bytes(bytes) ==
    IF bytes[2] = "field" THEN [ok |-> TRUE, value |-> bytes[3]]
    ELSE [ok |-> FALSE, value |-> Zero]

\* PublicKey::from_bytes: the encoding of a public key is decoded to that
\* key; the encoding of a field element is read as the y coordinate of a
\* point, which is decompressed when there is such a point on the curve
public_key_from_bytes(bytes, on_curve) ==
    IF bytes[2] = "point" THEN [ok |-> TRUE, value |-> bytes[3]]
    ELSE IF on_curve THEN [ok |-> TRUE, value |-> <<"point", bytes[3]>>]
    ELSE [ok |-> FALSE, value |-> Zero]

\* serde_json::to_string and serde_json::from_str
to_json(x) == <<"json", x>>

from_json(str) ==
    IF str[1] = "json" THEN [ok |-> TRUE, value |-> str[2]]
    ELSE [ok |-> FALSE, value |-> Zero]

\* the CreateUserSchema that register sends for a contact
create_user_schema(contact) ==
    LET address_bytes == address_to_bytes(contact.address)
        pubkey_bytes == address_to_bytes(contact.address)
    IN  [username |-> contact.username, address |-> to_json(address_bytes),
         pubkey |-> to_json(pubkey_bytes)]

\* the identifier get_contact sends for a request
user_identifier(kind, contact) ==
    IF kind = "Username" THEN <<"Username", contact.username>>
    ELSE <<"Address", to_json(to_json(address_to_bytes(contact.address)))>>

\* the users the service finds for an identifier
users_found(users, identifier) ==
    {u \in users : IF identifier[1] = "Username"
                   THEN u.username = identifier[2]
                   ELSE u.address = identifier[2]}

\* get_user_from_db on the User the service returned
contact_of_user(user, on_curve) ==
    LET address_bytes == from_json(user.address)
        address == address_from_bytes(address_bytes.value)
        pubkey_bytes == from_json(user.pubkey)
        pubkey == public_key_from_bytes(pubkey_bytes.value, on_curve)
    IN  IF ~address_bytes.ok \/ ~address.ok \/ ~pubkey_bytes.ok \/ ~pubkey.ok
        THEN [result |-> "panic", contact |-> NoContact]
        ELSE [result |-> "ok",
              contact |-> [address |-> address.value,
                           username |-> user.username,
                           public_key |-> pubkey.value]]

\* the contacts a client cached that answer a request
cached(w, kind, contact) ==
    {c \in service.contacts[w] :
        IF kind = "Username" THEN c.username = contact.username
        ELSE c.address = contact.address}

InitService ==
    /\ h = ConcreteCfg
    /\ cli = NoCli
    /\ foreign = NoHistory
    /\ spendables = [w \in Wallets |-> <<>>]
    /\ queue = {}
    /\ rng = 0
    /\ deliveries = 0
    /\ crashed = [w \in Wallets |-> FALSE]
    /\ spent = {}
    /\ last = NoLast
    /\ probe = NoProbe
    /\ service = NoService

\* Wallet::register through BlockingHttpClient::register
Register(w) ==
    /\ ~crashed[w]
    /\ \E service_ok \in BOOLEAN :
          /\ service' =
                 [service EXCEPT
                    !.users = IF service_ok
                              THEN @ \cup {create_user_schema(ContactOf(h, w))}
                              ELSE @,
                    !.response = [NoResponse EXCEPT
                                     !.client = w, !.kind = "register",
                                     !.user = w,
                                     !.result = IF service_ok THEN "ok"
                                                ELSE "service failed"]]
          /\ last' = [NoLast EXCEPT !.op = "register", !.w = w,
                                    !.result = IF service_ok THEN "ok"
                                               ELSE "service failed"]
    /\ UNCHANGED <<cli, h, foreign, spendables, queue, rng, deliveries, crashed,
                   spent, probe>>

\* BlockingHttpClient::get_contact of the client of wallet w for the
\* contact of user i, by username or by address
GetContact(w, kind, i) ==
    /\ ~crashed[w]
    /\ \E on_curve \in BOOLEAN :
          LET wanted == ContactOf(h, i)
              hits == cached(w, kind, wanted)
              found == users_found(service.users, user_identifier(kind, wanted))
              r == IF hits # {}
                   THEN [result |-> "ok", contact |-> CHOOSE c \in hits : TRUE]
                   ELSE IF found = {}
                   THEN [result |-> "broken", contact |-> NoContact]
                   ELSE contact_of_user(CHOOSE u \in found : TRUE, on_curve)
          IN  /\ service' =
                     [service EXCEPT
                        !.contacts[w] =
                            IF r.result = "ok"
                               /\ \A c \in @ : c.address # r.contact.address
                            THEN @ \cup {r.contact} ELSE @,
                        !.response = [client |-> w, kind |-> kind, user |-> i,
                                      result |-> r.result,
                                      contact |-> r.contact]]
              /\ crashed' = [crashed EXCEPT ![w] = r.result = "panic"]
              /\ last' = [NoLast EXCEPT !.op = "get_contact", !.w = w,
                                        !.receiver = i, !.result = r.result]
    /\ UNCHANGED <<cli, h, foreign, spendables, queue, rng, deliveries, spent,
                   probe>>

NextService ==
    \/ \E w \in Wallets : Register(w)
    \/ \E w \in Wallets, kind \in {"Username", "Address"}, i \in Wallets :
            GetContact(w, kind, i)

SpecService == InitService /\ [][NextService]_vars

\* ------------------------------------------------------ delivery of notes
\* the most note histories the service saves
MaxSaved == 2

\* the username the blocking client sends and fetches every note under:
\* "user0", the username of wallet 1
User0 == 1

\* the two implementations of the Service trait
ServiceImpls == {"blocking", "mock"}

\* Auth::shared_key for a public key that may not be a wallet's
key_with(i, public_key) ==
    IF public_key[1] = "pk"
    THEN shared_key(i, public_key)
    ELSE <<"dh", <<i, public_key>>>>

\* Auth::encrypt: the data under the key shared with the receiver
auth_encrypt(i, receiver_public_key, data) ==
    [key |-> key_with(i, receiver_public_key), plain |-> data]

\* Auth::decrypt with the key shared with the sender; under another key
\* the plaintext is garbage and the result is the outcome "garbled": the
\* abort of the unpadding or the error of the decoding
auth_decrypt_from(i, sender_public_key, encrypted, garbled) ==
    IF encrypted.key = key_with(i, sender_public_key)
    THEN [result |-> "ok", value |-> encrypted.plain]
    ELSE [result |-> garbled, value |-> NoHistory]

\* msg::request::Note as Wallet::send_note builds it
note_msg(w, receiver, note_history) ==
    [note_history |-> [encrypted |-> auth_encrypt(w, receiver.public_key,
                                                  note_history),
                       sender |-> ContactOf(h, w)],
     username |-> receiver.username, receiver |-> receiver.address]

\* the NoteHistoryRequest send_note posts: the ciphertext and the address
\* of the receiver under a recipient username; the sender is not part of it
note_history_request(impl, msg) ==
    [recipient_username |-> IF impl = "blocking" THEN User0 ELSE msg.username,
     data |-> msg.note_history.encrypted,
     address |-> to_json(address_to_bytes(msg.receiver))]

\* the username get_notes asks the note histories of
notes_username(impl, w) == IF impl = "blocking" THEN User0 ELSE w

\* get_user_from_db for a registered username: the blocking client reads
\* back what its register stored, the mock what its own register stored
user_from_db(impl, username, on_curve) ==
    IF impl = "blocking"
    THEN contact_of_user(create_user_schema(ContactOf(h, username)), on_curve)
    ELSE [result |-> "ok", contact |-> ContactOf(h, username)]

\* convert_note_history_to_encrypted_note_history: the sender is the
\* contact of the username the notes were asked for
encrypted_note_history(impl, saved, username, on_curve) ==
    [sender |-> user_from_db(impl, username, on_curve).contact,
     encrypted |-> saved.data]

\* the histories a wallet may send
SentHistories ==
    {foreign_issue(ConcreteCfg, 1, 1, v, "Out1", Zero, Zero) : v \in 1..MaxValue}

InitRelay ==
    /\ h = ConcreteCfg
    /\ cli = NoCli
    /\ foreign = NoHistory
    /\ spendables = [w \in Wallets |-> <<>>]
    /\ queue = {}
    /\ rng = 0
    /\ deliveries = 0
    /\ crashed = [w \in Wallets |-> FALSE]
    /\ spent = {}
    /\ last = NoLast
    /\ probe = NoProbe
    /\ \E impl \in ServiceImpls : service = [NoService EXCEPT !.impl = impl]

\* Wallet::send_note through Service::send_note; queue keeps what the
\* wallets sent
SendNote(w, receiver, note_history) ==
    /\ ~crashed[w]
    /\ Cardinality(service.saved) < MaxSaved
    /\ LET msg == note_msg(w, ContactOf(h, receiver), note_history)
       IN  /\ queue' = queue \cup {send_note_msg(w, receiver, note_history)}
           /\ service' =
                  [service EXCEPT
                      !.saved = @ \cup {note_history_request(service.impl, msg)}]
           /\ last' = [NoLast EXCEPT !.op = "send_note", !.w = w,
                                     !.receiver = receiver, !.result = "ok",
                                     !.nh = note_history]
    /\ UNCHANGED <<cli, h, foreign, spendables, rng, deliveries, crashed, spent,
                   probe>>

\* Service::get_notes of wallet w and the decryption of what it returns
FetchNotes(w) ==
    /\ ~crashed[w]
    /\ \E on_curve \in BOOLEAN, garbled \in {"panic", "decryption failed"} :
          LET username == notes_username(service.impl, w)
              found == {n \in service.saved : n.recipient_username = username}
              sender == user_from_db(service.impl, username, on_curve)
              fetched ==
                  {LET note == encrypted_note_history(service.impl, n,
                                                      username, on_curve)
                   IN  [saved |-> n, note |-> note,
                        decrypted |->
                            auth_decrypt_from(w, note.sender.public_key,
                                              note.encrypted, garbled)] :
                       n \in found}
              result ==
                  IF found # {} /\ sender.result = "panic" THEN "panic"
                  ELSE IF \E f \in fetched : f.decrypted.result = "panic"
                  THEN "panic"
                  ELSE IF \E f \in fetched : f.decrypted.result # "ok"
                  THEN "decryption failed"
                  ELSE "ok"
          IN  /\ service' = [service EXCEPT
                                !.fetched = IF found # {}
                                               /\ sender.result = "panic"
                                            THEN {} ELSE fetched]
              /\ crashed' = [crashed EXCEPT ![w] = result = "panic"]
              /\ last' = [NoLast EXCEPT !.op = "fetch_notes", !.w = w,
                                        !.result = result]
    /\ UNCHANGED <<cli, h, foreign, spendables, queue, rng, deliveries, spent,
                   probe>>

NextRelay ==
    \/ \E w \in Wallets, receiver \in Wallets, nh \in SentHistories :
            SendNote(w, receiver, nh)
    \/ \E w \in Wallets : FetchNotes(w)

SpecRelay == InitRelay /\ [][NextRelay]_vars

\* ------------------------------------------------ the command line client
\* The commands of the client run as separate processes of one account and
\* share the notebook file; nothing locks the file.
Account == 1
Receiver == 2

\* Notebook::note_exists
note_exists(notes, note) ==
    \E k \in 1..Len(notes) :
        /\ notes[k].current_note = note.current_note
        /\ notes[k].sibling = note.sibling

\* Notebook::add_note
add_note(notes, note) ==
    IF ~note_exists(notes, note) THEN Append(notes, note) ELSE notes

\* Notebook::update_note
update_note(notes, idx, note) == [notes EXCEPT ![idx + 1] = note]

\* Wallet::split as Cli::transfer calls it: the history to keep, the
\* history to send and the sealed transaction of a split of note_history
wallet_split(cfg, w, receiver, note_history, value, blind_0, blind_1) ==
    LET sender == AddressOf(cfg, w)
        note_in == note_history.current_note
        step == Len(note_history.steps)
        asset_hash == AssetHash(note_history.asset)
        note_out_0 == split_note_out_0(asset_hash, sender, note_in, value,
                                       step, blind_0)
        note_out_1 == split_note_out_1(asset_hash, AddressOf(cfg, receiver),
                                       note_in, value, step, blind_1)
        sealed == auth_split(cfg, w, NewSplitTx(note_in, note_out_0,
                                                note_out_1))
        blind_note_hash_0 == blind_note_hash(cfg, note_out_0)
        blind_note_hash_1 == blind_note_hash(cfg, note_out_1)
        state_out == state(cfg, blind_note_hash_0, blind_note_hash_1)
        public == split_public_inputs(asset_hash, sender,
                                      history_state(cfg, note_history),
                                      state_out)
        aux == split_aux_inputs(w, AddressOf(cfg, receiver), sealed, note_in,
                                value, note_history.sibling)
        new_step == NewIVCStep(create_proof(cfg, public, aux), state_out,
                               sealed.nullifier, sender)
        note_0 == split_history_0(note_history,
                                  Append(note_history.steps, new_step),
                                  note_out_0, blind_note_hash_1)
        note_1 == split_history_1(note_0, note_out_1, blind_note_hash_0)
    IN  IF insufficient_funds(note_in, value)
        THEN [result |-> "insufficient funds", note_0 |-> NoHistory,
              note_1 |-> NoHistory, nullifier |-> Zero]
        ELSE IF state_panics(note_history)
        THEN [result |-> "panic", note_0 |-> NoHistory,
              note_1 |-> NoHistory, nullifier |-> Zero]
        ELSE [result |-> "ok", note_0 |-> note_0, note_1 |-> note_1,
              nullifier |-> sealed.nullifier]

\* what the service may hold for the account: a history, encrypted by a
\* sender for one of the wallets
CliInbox ==
    {[sender |-> s, encrypted |-> auth_encrypt(s, PublicKeyOf(to), nh)] :
         s \in Wallets, to \in Wallets,
         nh \in {foreign_issue(h, 1, Account, MaxValue, "Out1", Zero, Zero),
                 foreign_variant(h, "badproof", Account, MaxValue),
                 foreign_variant(h, "nosteps", Account, MaxValue)}}

InitCli ==
    /\ h = ConcreteCfg
    /\ cli = NoCli
    /\ foreign = NoHistory
    /\ spendables = [w \in Wallets |-> <<>>]
    /\ queue = {}
    /\ rng = 0
    /\ deliveries = 0
    /\ crashed = [w \in Wallets |-> FALSE]
    /\ spent = {}
    /\ last = NoLast
    /\ probe = NoProbe
    /\ service = NoService

\* Cli::get_notes on one note the service returns: the sender's contact
\* is looked up, the note is decrypted and handed to Notebook::add_note
CliGetNotes(p, fetched) ==
    /\ cli.procs[p].pc = "idle"
    /\ Len(cli.notebook) < MaxSpendables
    /\ LET decrypted == auth_decrypt_from(Account, PublicKeyOf(fetched.sender),
                                          fetched.encrypted, "panic")
           call == [NoLast EXCEPT !.op = "get", !.w = Account,
                                  !.nh = fetched.encrypted.plain]
       IN  IF decrypted.result # "ok"
           THEN /\ last' = [call EXCEPT !.result = "panic"]
                /\ UNCHANGED cli
           ELSE /\ last' = [call EXCEPT
                               !.result = "ok",
                               !.added = ~note_exists(cli.notebook,
                                                      decrypted.value)]
                /\ cli' = [cli EXCEPT
                              !.notebook = add_note(@, decrypted.value)]
    /\ UNCHANGED <<h, foreign, spendables, queue, rng, deliveries, crashed,
                   spent, probe, service>>

\* Cli::transfer up to the request to the service: the notebook is read,
\* the note at the index is split, the nullifier is stored and the sent
\* history goes to the receiver; a failure of send_note is dropped
CliTransfer(p, index, value) ==
    /\ cli.procs[p].pc = "idle"
    /\ rng + 2 <= MaxBlinds
    /\ index < Len(cli.notebook)
           => Len(cli.notebook[index + 1].steps) < MaxSteps
    /\ LET notes == cli.notebook
           call == [NoLast EXCEPT !.op = "transfer", !.w = Account,
                                  !.index = index, !.value = value,
                                  !.receiver = Receiver]
       IN  IF index >= Len(notes)
           THEN /\ last' = [call EXCEPT !.result = "panic"]
                /\ UNCHANGED <<cli, rng, spent, queue>>
           ELSE
           LET note == notes[index + 1]
               split == wallet_split(h, Account, Receiver, note, value,
                                     BlindOf(rng + 1), BlindOf(rng + 2))
           IN  \E prover_ok \in BOOLEAN, send_ok \in BOOLEAN :
               IF split.result # "ok" \/ ~prover_ok
               THEN /\ last' = [call EXCEPT
                                   !.nh = note,
                                   !.result =
                                       IF split.result # "ok"
                                       THEN split.result
                                       ELSE "proof generation failed"]
                    /\ UNCHANGED <<cli, rng, spent, queue>>
               ELSE /\ rng' = rng + 2
                    /\ spent' = spent \cup
                           {[w |-> Account, nh |-> note,
                             note_in |-> note.current_note,
                             nullifier |-> split.nullifier,
                             sent |-> split.note_1]}
                    /\ queue' =
                           IF send_ok
                           THEN queue \cup {send_note_msg(Account, Receiver,
                                                          split.note_1)}
                           ELSE queue
                    /\ cli' = [cli EXCEPT
                                  !.procs[p] = [pc |-> "update",
                                                index |-> index,
                                                note |-> note,
                                                note_0 |-> split.note_0]]
                    /\ last' = [call EXCEPT !.nh = note, !.result = "sent",
                                            !.sent = split.note_1]
    /\ UNCHANGED <<h, foreign, spendables, deliveries, crashed, probe,
                   service>>

\* the end of Cli::transfer: Notebook::update_note writes the kept history
\* at the index into the notebook as it is by then
CliUpdateNote(p) ==
    /\ cli.procs[p].pc = "update"
    /\ cli' = [cli EXCEPT
                  !.notebook = update_note(@, cli.procs[p].index,
                                           cli.procs[p].note_0),
                  !.procs[p] = NoProc]
    /\ last' = [NoLast EXCEPT !.op = "update_note", !.w = Account,
                              !.result = "ok",
                              !.index = cli.procs[p].index,
                              !.nh = cli.procs[p].note]
    /\ UNCHANGED <<h, foreign, spendables, queue, rng, deliveries, crashed,
                   spent, probe, service>>

NextCli ==
    \/ \E p \in Procs, fetched \in CliInbox : CliGetNotes(p, fetched)
    \/ \E p \in Procs, index \in 0..(MaxSpendables - 1), value \in 0..MaxValue :
           CliTransfer(p, index, value)
    \/ \E p \in Procs : CliUpdateNote(p)

SpecCli == InitCli /\ [][NextCli]_vars

\* ------------------------------------- the wallet of the client's library
\* Signer.signing_key of identity i
SigningKeyOf(i) == <<"sk", i>>

\* what Auth holds and no other party may learn
secrets(i) == {NullifierKeyOf(i), SigningKeyOf(i)}

\* AuxInputs { public_key, nullifier_key, signature, tx }
NewLibAuxInputs(public_key, nullifier_key, signature, tx) ==
    [public_key |-> public_key, nullifier_key |-> nullifier_key,
     signature |-> signature, tx |-> tx]

\* NoteHistory { asset, witness, steps, current_note, sibling }
NewLibNoteHistory(asset, witness, steps, current_note, sibling) ==
    [asset |-> asset, witness |-> witness, steps |-> steps,
     current_note |-> current_note, sibling |-> sibling]

\* IssueTx::new: the signature hash of an issue is the hash of the note
lib_sighash_issue(cfg, note) == note_hash(cfg, note)

\* SplitTx::new: the signature hash of a split
lib_sighash_split(cfg, note_in, note_out_0, note_out_1) ==
    CRH(cfg.tx, <<note_hash(cfg, note_in), note_hash(cfg, note_out_1),
                  note_hash(cfg, note_out_0)>>)

\* NaiveWitness::first_step_witness
first_step_witness(tx, signature, nullifier_key, public_key) ==
    <<NewLibAuxInputs(public_key, nullifier_key, signature,
                      [kind |-> "Issue", tx |-> tx])>>

\* NaiveWitness::accumulate_witness: the auxiliary inputs and the public
\* step of the split are appended to the history
accumulate_witness(note_history_0, tx, signature, nullifier_, state_out, nullifier_key, public_key) ==
    [note_history_0 EXCEPT
        !.witness = Append(@, NewLibAuxInputs(
                                  public_key, nullifier_key, signature,
                                  [kind |-> "Split", tx |-> tx,
                                   sibling |-> note_history_0.sibling])),
        !.steps = Append(@, [state |-> state_out, nullifier |-> nullifier_,
                             sender |-> note_history_0.current_note.owner])]

\* NaiveWitness::verify checks the auxiliary inputs zipped with the public
\* inputs, one per step: the number of verify_step calls
lib_steps_verified(note_history) ==
    IF Len(note_history.witness) < Len(note_history.steps)
    THEN Len(note_history.witness)
    ELSE Len(note_history.steps)

\* the verdicts of verify_step on the zipped pairs; the relation itself is
\* not evaluated here
LibVerdicts == {"ok", "invalid witness"}

\* no history in circulation yet
NoLibHistory == NewLibNoteHistory(NewAsset(Zero, 0), <<>>, <<>>, NoNote, Zero)

InitLib ==
    /\ h = ConcreteCfg
    /\ cli = NoCli
    /\ foreign = NoLibHistory
    /\ spendables = [w \in Wallets |-> <<>>]
    /\ queue = {}
    /\ rng = 0
    /\ deliveries = 0
    /\ crashed = [w \in Wallets |-> FALSE]
    /\ spent = {}
    /\ last = NoLast
    /\ probe = NoProbe
    /\ service = NoService

\* CommReceiver::receive of wallet w: the receivables afterwards
lib_receive(receivables, note_history, verdict) ==
    IF lib_steps_verified(note_history) = 0 \/ verdict = "ok"
    THEN Append(receivables, note_history)
    ELSE receivables

\* Wallet::issue of the library: the fresh history is posted to the
\* receiver; foreign is the history the callers hold
LibIssue(w, receiver, value) ==
    /\ rng + 1 <= MaxBlinds
    /\ Len(spendables[receiver]) < MaxSpendables
    /\ LET asset == NewAsset(AddressOf(h, w), 0)
           note == issue_note(AssetHash(asset), AddressOf(h, receiver), value,
                              BlindOf(rng + 1))
           signature == sign_tx(w, lib_sighash_issue(h, note))
           witness == first_step_witness(note, signature, NullifierKeyOf(w),
                                         PublicKeyOf(w))
           history == NewLibNoteHistory(asset, witness, <<>>, note, Zero)
       IN  /\ foreign' = history
           /\ spendables' =
                  [spendables EXCEPT
                      ![receiver] = lib_receive(@, history, "ok")]
           /\ last' = [NoLast EXCEPT !.op = "lib_issue", !.w = w,
                                     !.receiver = receiver, !.value = value,
                                     !.result = "ok", !.added = TRUE]
    /\ rng' = rng + 1
    /\ UNCHANGED <<cli, h, queue, deliveries, crashed, spent, probe, service>>

\* Wallet::split of the library on the history the caller holds: the
\* witness is accumulated in place and the history is posted to the
\* receiver.  steps.len() - 1 underflows on a history without steps: a
\* build with overflow checks aborts there, one without goes on with the
\* wrapped step.
LibSplit(w, receiver, value, overflow_checks, verdict) ==
    /\ foreign # NoLibHistory
    /\ rng + 2 <= MaxBlinds
    /\ Len(foreign.steps) < MaxSteps
    /\ Len(spendables[receiver]) < MaxSpendables
    /\ LET call == [NoLast EXCEPT !.op = "lib_split", !.w = w,
                                  !.receiver = receiver, !.value = value]
           r == cli_split(h, w, receiver, foreign, value, BlindOf(rng + 1),
                          BlindOf(rng + 2))
       IN  IF Len(foreign.steps) = 0 /\ overflow_checks
           THEN /\ last' = [call EXCEPT !.result = "panic"]
                /\ UNCHANGED <<foreign, spendables, rng>>
           ELSE IF r.result # "ok"
           THEN /\ last' = [call EXCEPT !.result = r.result]
                /\ UNCHANGED <<foreign, spendables, rng>>
           ELSE
           LET note_in == foreign.current_note
               tx == NewSplitTx(note_in, r.note_out_0, r.note_out_1)
               signature ==
                   sign_tx(w, lib_sighash_split(h, note_in, r.note_out_0,
                                                r.note_out_1))
               nullifier_ == nullifier(h, note_hash(h, note_in),
                                       NullifierKeyOf(w))
               state_out == state(h, blind_note_hash(h, r.note_out_0),
                                  blind_note_hash(h, r.note_out_1))
               history == accumulate_witness(foreign, tx, signature,
                                             nullifier_, state_out,
                                             NullifierKeyOf(w), PublicKeyOf(w))
               received == lib_receive(spendables[receiver], history, verdict)
           IN  /\ foreign' = history
               /\ rng' = rng + 2
               /\ spendables' = [spendables EXCEPT ![receiver] = received]
               /\ last' = [call EXCEPT
                              !.result = IF received = spendables[receiver]
                                         THEN "invalid witness" ELSE "ok",
                              !.added = received # spendables[receiver]]
    /\ UNCHANGED <<cli, h, queue, deliveries, crashed, spent, probe, service>>

NextLib ==
    \/ \E w \in Wallets, receiver \in Wallets, value \in 0..MaxValue :
           LibIssue(w, receiver, value)
    \/ \E w \in Wallets, receiver \in Wallets, value \in 0..MaxValue,
          overflow_checks \in BOOLEAN, verdict \in LibVerdicts :
           LibSplit(w, receiver, value, overflow_checks, verdict)

SpecLib == InitLib /\ [][NextLib]_vars

\* ------------------------------------------- hashing under PoseidonConfigs
\* the PoseidonConfigs values the hash functions are evaluated under
PoseidonCfgs == {ConcreteCfg, TaggedCfg}

\* the notes that are hashed: the current notes of histories of every
\* value
HashedHistories(cfg) ==
    {foreign_issue(cfg, s, o, v, "Out1", Zero, Zero) :
         s \in Wallets, o \in Wallets, v \in 0..MaxValue}
    \cup ForeignHistories(cfg)

InitHash ==
    /\ h \in PoseidonCfgs
    /\ cli = NoCli
    /\ foreign \in HashedHistories(h)
    /\ spendables = [w \in Wallets |-> <<>>]
    /\ queue = {}
    /\ rng = 0
    /\ deliveries = 0
    /\ crashed = [w \in Wallets |-> FALSE]
    /\ spent = {}
    /\ last = NoLast
    /\ probe = NoProbe
    /\ service = NoService

\* the nullifier of the current note of the history under the key of
\* wallet w: as Auth::split seals it and as synth derives it
HashNullifier(w) ==
    /\ ~probe.done
    /\ LET note_in == foreign.current_note
           sealed == auth_split(h, w, NewSplitTx(note_in, NoNote, NoNote))
       IN  probe' = [NoProbe EXCEPT
                        !.fn = "nullifier", !.done = TRUE, !.value_in = w,
                        !.hashes = <<sealed.nullifier,
                                     var_nullifier(h, note_hash(h, note_in),
                                                   NullifierKeyOf(w))>>]
    /\ UNCHANGED <<cli, h, foreign, spendables, queue, rng, deliveries, crashed,
                   spent, last, service>>

NextHash == \E w \in Wallets : HashNullifier(w)

SpecHash == InitHash /\ [][NextHash]_vars

\* ----------------------------------------------------------------- claims
\* every step of the history has a proof the verifier returns true for
verified(nh) == \A i \in 1..Len(nh.steps) : incoming_verdicts(nh)[i]

\* the last operation was a verify_incoming
IsVerify == last.op = "verify_incoming"

\* the last operation was a split that replaced the spendable
SplitDone == last.op = "split" /\ last.result \in {"ok", "send failed"}

\* the history a completed split left in the spendables
kept_history == spendables[last.w][last.index + 1]

\* C1: verify_incoming adds a history only if the verifier returns true for
\* the proof of every step against the recomputed public inputs, and a
\* history with a step whose verification result is false is rejected with
\* an error and not added.
C1_RejectsFalseProofs ==
    IsVerify =>
        /\ last.added => verified(last.nh)
        /\ ~verified(last.nh) => last.result # "ok" /\ ~last.added

\* C2: for every history verify_incoming accepts, the state_in used for
\* step 0 is the asset hash, the state_in used for a later step is the state
\* of the step before it, and the state of the last step is the state
\* recomputed from the current note and its sibling.
C2_ChainConsistency ==
    IsVerify /\ last.added =>
        LET nh == last.nh
            n == Len(nh.steps)
            pis == incoming_public_inputs(nh)
        IN  /\ Len(pis) = n
            /\ n > 0 => pis[1].state_in = AssetHash(nh.asset)
            /\ \A i \in 2..n : pis[i].state_in = nh.steps[i - 1].state
            /\ n > 0 => nh.steps[n].state = history_state(h, nh)

\* a wallet accepted a history of two steps
C2_Witness == IsVerify /\ last.added /\ Len(last.nh.steps) = 2

\* C3: for every history verify_incoming accepts, the first step is the
\* issue step, its nullifier is the field zero and its sender is the issuer
\* of the asset.
C3_IssueStep ==
    IsVerify /\ last.added =>
        /\ Len(last.nh.steps) >= 1
        /\ last.nh.steps[1].nullifier = Zero
        /\ last.nh.steps[1].sender = last.nh.asset.issuer

\* C4: a history that a wallet produced by splitting a note it does not own
\* is accepted by no wallet's verify_incoming.
C4_WrongOwnerCannotSpend ==
    IsVerify /\ last.added =>
        ~ \E e \in spent :
            /\ e.sent = last.nh
            /\ e.note_in.owner # AddressOf(h, e.w)

\* C5: two splits of the same note by its owner, the note being the
\* current note of a history that passes verification, produce steps that
\* carry the same nullifier, and each of the two histories they produce
\* passes verification: it is accepted and the proof of every step
\* verifies.
C5_DoubleSpendSignal ==
    \A e1 \in spent, e2 \in spent :
        /\ e1 # e2
        /\ e1.w = e2.w
        /\ e1.note_in = e2.note_in
        /\ e1.note_in.owner = AddressOf(h, e1.w)
        /\ \A e \in {e1, e2} : Len(e.nh.steps) >= 1 /\ verified(e.nh)
        => /\ e1.nullifier = e2.nullifier
           /\ \A e \in {e1, e2} :
                /\ e.sent.steps[Len(e.sent.steps)].nullifier = e.nullifier
                /\ verify_incoming(h, <<>>, e.sent).added
                /\ verified(e.sent)

\* C6: every split step the step relation accepts has
\* value_out_0 + value_out_1 = value_in as integers and each of the three
\* values within the u64 range.
C6_ZeroSum ==
    /\ probe.fn \in {"synth", "verify_step"}
    /\ probe.done
    /\ probe.result = "accepted"
    => /\ probe.value_out_0 + probe.value_out_1 = probe.value_in
       /\ probe.value_in \in 0..U64Max
       /\ probe.value_out_0 \in 0..U64Max
       /\ probe.value_out_1 \in 0..U64Max

\* what C7 says of the state after a split that reached the funds check
C7_FundsCheck ==
    /\ last.op = "split"
    /\ last.result \notin {"contact not found", "bad spendable index"}
    => /\ last.result = "insufficient funds"
          <=> last.value > last.nh.current_note.value
       /\ SplitDone /\ last.value = last.nh.current_note.value
          => kept_history.current_note.value = 0

\* C7: a split of a spendable to a registered receiver fails with
\* insufficient funds exactly when the value exceeds the value of the
\* current note, a completed split of the whole value leaves a change note
\* of value 0, and a split that fails with insufficient funds leaves the
\* spendables of every wallet as they were.
C7_InsufficientFunds ==
    /\ []C7_FundsCheck
    /\ [][last'.op = "split" /\ last'.result = "insufficient funds"
              => spendables' = spendables]_vars

\* a split was refused for insufficient funds
C7_Witness ==
    /\ last.op = "split"
    /\ last.result = "insufficient funds"
    /\ last.value > last.nh.current_note.value

\* no two spendables of a wallet hold the same current note
C8_OneEntry ==
    \A w \in Wallets : \A j \in 1..Len(spendables[w]), k \in 1..Len(spendables[w]) :
        spendables[w][j].current_note = spendables[w][k].current_note => j = k

\* C8: a verify_incoming of a history whose current note is the current
\* note of a spendable returns success and leaves the spendables unchanged,
\* so a wallet never holds two entries for one current note.
C8_Idempotent ==
    /\ []C8_OneEntry
    /\ [][/\ last'.op = "verify_incoming"
          /\ \E k \in 1..Len(spendables[last'.w]) :
                spendables[last'.w][k].current_note = last'.nh.current_note
          => last'.result = "ok" /\ spendables' = spendables]_vars

\* a wallet was handed a history it already holds
C8_Witness ==
    /\ IsVerify /\ last.result = "ok" /\ ~last.added
    /\ \E k \in 1..Len(spendables[last.w]) :
          spendables[last.w][k] = last.nh

\* C9: a successful split of value v from a note of value V builds
\* note_out_0 owned by the splitting wallet with index Out0 and value V - v
\* and note_out_1 owned by the receiver with index Out1 and value v, both
\* with the asset hash of the input note.
C9_SplitNotes ==
    probe.fn = "cli_split" /\ probe.done /\ probe.result = "ok" =>
        LET note_in == cli_history(h, probe.value_in).current_note IN
        /\ probe.note_out_0.owner = AddressOf(h, 1)
        /\ probe.note_out_0.out_index = "Out0"
        /\ probe.note_out_0.value = probe.value_in - probe.value
        /\ probe.note_out_1.owner = AddressOf(h, 2)
        /\ probe.note_out_1.out_index = "Out1"
        /\ probe.note_out_1.value = probe.value
        /\ probe.note_out_0.asset_hash = note_in.asset_hash
        /\ probe.note_out_1.asset_hash = note_in.asset_hash

\* C10: both notes a split builds have the blinded hash of the input note
\* as parent_note, and as step the number of steps of the history before
\* the split, which is the step of the input note plus one.
C10_ParentAndStep ==
    SplitDone =>
        LET note_in == last.nh.current_note
            note_out_0 == kept_history.current_note
            note_out_1 == last.sent.current_note
        IN  /\ note_out_0.parent_note = blind_note_hash(h, note_in)
            /\ note_out_1.parent_note = blind_note_hash(h, note_in)
            /\ note_out_0.step = Len(last.nh.steps)
            /\ note_out_1.step = Len(last.nh.steps)
            /\ note_out_0.step = note_in.step + 1

\* C11: after a completed split the kept and the sent history have the same
\* steps, the steps before the split followed by one new step; the kept
\* one holds the Out0 note of the splitting wallet and the blinded hash of
\* the sent note as sibling, the sent one holds the Out1 note and the
\* blinded hash of the kept note as sibling; for both the state recomputed
\* from current note and sibling is the state of the new step.
C11_SplitHistories ==
    SplitDone =>
        LET kept == kept_history
            sent == last.sent
            n == Len(last.nh.steps)
        IN  /\ kept.steps = sent.steps
            /\ Len(kept.steps) = n + 1
            /\ SubSeq(kept.steps, 1, n) = last.nh.steps
            /\ kept.current_note.out_index = "Out0"
            /\ kept.current_note.owner = AddressOf(h, last.w)
            /\ sent.current_note.out_index = "Out1"
            /\ sent.current_note.owner = AddressOf(h, last.receiver)
            /\ kept.sibling = blind_note_hash(h, sent.current_note)
            /\ sent.sibling = blind_note_hash(h, kept.current_note)
            /\ kept.steps[n + 1].state =
                   state(h, blind_note_hash(h, kept.current_note),
                         blind_note_hash(h, sent.current_note))
            /\ history_state(h, kept) = kept.steps[n + 1].state
            /\ history_state(h, sent) = sent.steps[n + 1].state

\* a split of a history of one step was completed and its note sent
C11_Witness ==
    /\ SplitDone /\ last.result = "ok"
    /\ Len(last.nh.steps) = 1
    /\ Len(last.sent.steps) = 2

\* the note the last call of issue built: the asset is the caller's own and
\* the blind is the latest draw of the rng
issued_note ==
    issue_note(AssetHash(NewAsset(AddressOf(h, last.w), 0)),
               AddressOf(h, last.receiver), last.value, BlindOf(rng))

\* C12: every note issue builds has owner = receiver, step = 0,
\* out_index = Out1 and parent = 0, so IssueTx::new does not abort on any
\* call of issue, and the current note of every spendable, which is what a
\* split takes as input, has out_index Out0 or Out1.
C12_IssueNote ==
    /\ last.op = "issue" /\ last.result # "contact not found"
       => /\ issued_note.owner = AddressOf(h, last.receiver)
          /\ issued_note.step = 0
          /\ issued_note.out_index = "Out1"
          /\ issued_note.parent_note = Zero
          /\ ~issue_tx_new_panics(issued_note)
          /\ last.result # "panic"
    /\ \A w \in Wallets : \A k \in 1..Len(spendables[w]) :
          spendables[w][k].current_note.out_index \in {"Out0", "Out1"}

\* the envelopes on the relay that carry an issue history for user w
issue_envelopes(w) ==
    {m \in queue : m.username = w /\ Len(m.data.steps) = 1
                   /\ m.data.steps[1].proof.pi.state_in = AssetHash(m.data.asset)}

\* C13: a wallet's issue to a registered wallet returns, and once the
\* receiver, holding nothing else, has run verify_incoming on the delivered
\* history, its spendables hold exactly that history, with the issued value,
\* one step, nullifier 0, the issuer's address as sender, and as last state
\* the hash of 0 and the blinded hash of the current note.
C13_IssueOnly ==
    /\ last.op = "issue" /\ last.result # "contact not found"
       => last.result # "panic"
    /\ \A m \in issue_envelopes(last.w) :
          /\ IsVerify /\ last.nh = m.data
          /\ \A k \in 1..Len(spendables[last.w]) :
                spendables[last.w][k] = m.data
          => /\ spendables[last.w] = <<m.data>>
             /\ Len(m.data.steps) = 1
             /\ m.data.steps[1].nullifier = Zero
             /\ m.data.steps[1].sender = AddressOf(h, m.sender)
             /\ m.data.steps[1].state =
                    state(h, Zero, blind_note_hash(h, m.data.current_note))

\* the public inputs of the proof a completed split put in the new step
split_proof_inputs == kept_history.steps[Len(last.nh.steps) + 1].proof.pi

\* C15: the public inputs under which split creates the proof of the new
\* step are the ones verify_incoming recomputes for that step: the same
\* asset hash and sender, state_in = the state of the previous step,
\* state_out = the state of the new step, step = the position of the new
\* step in the chain, nullifier = the nullifier stored in the new step.
C15_SplitPublicInputs ==
    SplitDone /\ Len(last.nh.steps) >= 1 =>
        LET n == Len(last.nh.steps)
            new_step == kept_history.steps[n + 1]
            recomputed == incoming_public_inputs(kept_history)[n + 1]
        IN  /\ split_proof_inputs.asset_hash = recomputed.asset_hash
            /\ split_proof_inputs.sender = recomputed.sender
            /\ split_proof_inputs.state_in = last.nh.steps[n].state
            /\ split_proof_inputs.state_out = new_step.state
            /\ split_proof_inputs.step = n
            /\ split_proof_inputs.nullifier = new_step.nullifier
            /\ split_proof_inputs = recomputed

\* the nullifiers of the split steps of a history are pairwise different
distinct_nullifiers(nh) ==
    \A i \in 2..Len(nh.steps) : \A j \in 2..Len(nh.steps) :
        i # j => nh.steps[i].nullifier # nh.steps[j].nullifier

\* C14: every split the owner of the current note of a verified chain has
\* made (an issue followed by splits) sent a history that verification
\* accepts with every proof verifying, that has one step more than the
\* chain before it, whose steps carry as sender the address of the wallet
\* that made the transition, and whose split nullifiers are pairwise
\* different.
C14_SplitChain ==
    \A e \in spent :
        /\ e.note_in.owner = AddressOf(h, e.w)
        /\ Len(e.nh.steps) >= 1
        /\ verified(e.nh)
        => LET n == Len(e.nh.steps)
           IN  /\ verify_incoming(h, <<>>, e.sent).added
               /\ verified(e.sent)
               /\ Len(e.sent.steps) = n + 1
               /\ SubSeq(e.sent.steps, 1, n) = e.nh.steps
               /\ e.sent.steps[n + 1].sender = AddressOf(h, e.w)
               /\ distinct_nullifiers(e.sent)

\* the step at position i (from 1) of the history was proven as an issue
\* step: under public inputs with step = 0, for which the circuit takes
\* the issue branch
proven_as_issue(nh, i) == nh.steps[i].proof.pi.step = 0

\* C16: in every history verify_incoming accepts the step at index 0, and
\* no other, was proven as an issue step with state_in the asset hash; a
\* history with a later step proven as an issue step, or with the step at
\* index 0 proven as a split, is rejected with an error and not added.
C16_IssueExclusivity ==
    IsVerify =>
        LET nh == last.nh
            misplaced == \E i \in 1..Len(nh.steps) :
                             proven_as_issue(nh, i) # (i = 1)
        IN  /\ last.added =>
                  /\ ~misplaced
                  /\ Len(nh.steps) >= 1 =>
                        nh.steps[1].proof.pi.state_in = AssetHash(nh.asset)
            /\ misplaced => last.result # "ok" /\ ~last.added

\* the stored note decrypts to a history verify_incoming accepts on its own
valid_note(note) ==
    /\ auth_decrypt(note.encrypted).result = "ok"
    /\ verify_incoming(h, <<>>, note.encrypted.data).result = "ok"

\* some spendable of wallet w after the step holds the note of the history
holds_after(w, nh) ==
    \E j \in 1..Len(spendables'[w]) :
        spendables'[w][j].current_note = nh.current_note

\* C17: when a wallet processes the batch of notes stored for it and one of
\* them fails decryption or verification, the histories already in its
\* spendables are unchanged and every valid history of the batch is in
\* its spendables afterwards.
C17_FailureIsolation ==
    [][\A w \in Wallets :
          last'.op = "get_notes" /\ last'.w = w
          /\ last'.result # "failed to get notes from db"
          => /\ SubSeq(spendables'[w], 1, Len(spendables[w])) = spendables[w]
             /\ \A k \in 1..Len(service.notes[w]) :
                   valid_note(service.notes[w][k])
                   => holds_after(w, service.notes[w][k].encrypted.data)]_vars

\* C18: whatever is stored for a wallet, a ciphertext with invalid padding,
\* undecodable bytes, or a history with an Issue current note and a
\* non-zero sibling included, get_notes (decryption, then verify_incoming)
\* ends with a value or an error and never aborts the wallet.
C18_NoAbortOnInput ==
    last.op = "get_notes" /\ last.result # "failed to get notes from db"
    => last.result # "panic" /\ ~crashed[last.w]

\* C19: for every object and every pair of wallets, what the sender
\* encrypted under its secret and the receiver's public key is decrypted by
\* the receiver, under its secret and the sender's public key, to the same
\* object; both derive the same shared key.
C19_EnvelopeRoundTrip ==
    probe.done /\ probe.fn = "envelope" =>
        /\ probe.result = "ok"
        /\ probe.value = probe.obj
        /\ probe.shared = signer_shared_key(SecretOf(probe.receiver),
                                            PointOf(probe.sender))
        /\ deserialize(decrypt(probe.shared, probe.encrypted.data).value).value
               = probe.obj

\* an object of two bytes went from one wallet to another one
C19_Witness ==
    /\ probe.done /\ probe.fn = "envelope"
    /\ probe.sender # probe.receiver
    /\ Len(probe.obj) = MaxMsg
    /\ Len(probe.encrypted.data) = 2 * BlockLen
    /\ probe.value = probe.obj

\* the contact of the user the last request was about
wanted_contact == ContactOf(h, service.response.user)

\* the user the last request was about has been registered
registered ==
    \E u \in service.users : u.username = service.response.user

\* C20: a request for the username or the address of a registered contact
\* does not abort the client, and the contact it obtains has the address
\* and the public key of the contact that was registered.
C20_ContactRoundTrip ==
    last.op = "get_contact" /\ registered =>
        /\ service.response.result # "panic"
        /\ service.response.result = "ok" =>
              /\ service.response.contact.address = wanted_contact.address
              /\ service.response.contact.public_key
                     = wanted_contact.public_key

\* the ciphertext of a note a wallet sent
sent_ciphertext(m) == auth_encrypt(m.sender, PublicKeyOf(m.username), m.data)

\* the saved note history holds the ciphertext of the note for its receiver
saved_of(n, m) ==
    /\ n.data = sent_ciphertext(m)
    /\ n.address = to_json(address_to_bytes(m.receiver))

\* C21: every history a wallet sent with send_note is saved under the
\* receiver's username; a wallet that fetches its notes gets it only if it
\* is the receiver, attributed to the sending wallet, and decrypts it to
\* the history that was sent.
C21_Delivery ==
    \A m \in queue :
        /\ \E n \in service.saved :
              saved_of(n, m) /\ n.recipient_username = m.username
        /\ last.op = "fetch_notes" /\ last.result # "panic" =>
              \A f \in service.fetched :
                  saved_of(f.saved, m)
                  => /\ last.w = m.username
                     /\ f.note.sender = ContactOf(h, m.sender)
                     /\ f.decrypted.result = "ok"
                     /\ f.decrypted.value = m.data
        /\ last.op = "fetch_notes" /\ last.w = m.username =>
              /\ last.result = "ok"
              /\ \E f \in service.fetched : saved_of(f.saved, m)

\* C22: the get command adds a fetched history to the notebook only after
\* it has been decrypted and has passed chain verification; a history that
\* fails verification never appears in the notebook.
C22_GetVerifies ==
    last.op = "get" /\ last.added
        => /\ verified(last.nh)
           /\ verify_incoming(h, <<>>, last.nh).result = "ok"

\* the commands that have split a note and not yet written the notebook
updating == {p \in Procs : cli.procs[p].pc = "update"}

\* C23: under any interleaving of two transfers of one account that target
\* the same stored history at most one consumes the original current note,
\* and the notebook entry a transfer writes back is still the one it read
\* (no lost update).
C23_SplitExclusive ==
    \A p \in updating :
        /\ \A q \in updating :
               cli.procs[q].note.current_note = cli.procs[p].note.current_note
                   => q = p
        /\ cli.notebook[cli.procs[p].index + 1] = cli.procs[p].note

\* the key material a history of the library carries in the clear
witness_keys(note_history) ==
    UNION {{note_history.witness[k].nullifier_key,
            note_history.witness[k].public_key} :
               k \in 1..Len(note_history.witness)}

\* a wallet of the library handed the history in circulation to a receiver
LibHanded == last.op \in {"lib_issue", "lib_split"} /\ last.result # "panic"
                 /\ last.result # "insufficient funds"

\* C24: no value handed to another wallet or to the service (registration
\* message, note message, delivered history with the witness data it
\* carries) contains the sender's seed, nullifier key or signing key.
C24_NoSecretHandedOver ==
    LibHanded => witness_keys(foreign) \cap secrets(last.w) = {}

\* C25: for every note hash, every nullifier key and every PoseidonConfigs
\* value, one whose per-domain configurations differ included, the
\* nullifier the wallet computes when sealing a split equals the nullifier
\* the circuit computes and enforces for the same note hash and key.
C25_NullifierAgreement ==
    probe.fn = "nullifier" /\ probe.done => probe.hashes[1] = probe.hashes[2]

\* the last auxiliary inputs of the history in circulation
handed_aux == foreign.witness[Len(foreign.witness)]

\* C26: the message a wallet signs equals the signature hash the step
\* relation recomputes and verifies: Poseidon(0, 0, note_hash) for an issue
\* and Poseidon(note_in_hash, note_out_0_hash, note_out_1_hash), in this
\* argument order, for a split.
C26_SignedMessage ==
    /\ last.op = "lib_issue"
       => handed_aux.signature =
              sign_tx(last.w, sighash(h, Zero, Zero,
                                      note_hash(h, handed_aux.tx.tx)))
    /\ last.op = "lib_split" /\ last.result \in {"ok", "invalid witness"}
       => handed_aux.signature =
              sign_tx(last.w, sighash_split_tx(h, handed_aux.tx.tx))

\* C27: an issue or split call that does not complete successfully, whether
\* it fails during contact lookup, signing, proof generation or delivery of
\* the note to the receiver, leaves the spendables of the wallet exactly as
\* they were before the call.
C27_NoPartialMutation ==
    [][last'.op \in {"issue", "split"} /\ last'.result # "ok"
          => spendables' = spendables]_vars

\* the number of transitions a history claims: the issue and one split for
\* every step the current note lies behind it
transitions(nh) == nh.current_note.step + 1

\* C28: every history a wallet accepts has at least one step and every one
\* of its steps has been checked: a history with an empty steps sequence is
\* rejected, and the number of steps verified equals the number of
\* transitions (issue plus splits) the history claims.
C28_StepsChecked ==
    IsVerify /\ last.added
        => /\ Len(last.nh.steps) >= 1
           /\ Len(incoming_public_inputs(last.nh)) = transitions(last.nh)

\* C29: after any sequence of issue, split and verify_incoming operations
\* every history in the spendables of a wallet has current_note.owner equal
\* to the address of that wallet; an incoming history owned by another
\* address is not added.
C29_SpendablesOwned ==
    \A w \in Wallets : \A k \in 1..Len(spendables[w]) :
        spendables[w][k].current_note.owner = AddressOf(h, w)

\* C30: a spent note never becomes spendable again: once a wallet has split
\* a history, no later sequence of fetch and verify_incoming operations,
\* re-delivery of the very history that carried the spent note included,
\* puts a history whose current note is the spent note back into the
\* spendables of the wallet.
C30_SpentStaysSpent ==
    \A r \in spent : \A k \in 1..Len(spendables[r.w]) :
        spendables[r.w][k].current_note # r.note_in
====
